---- MODULE Spec2Model ----
(***************************************************************************)
(* A model of tlm_adjoint's equation layer (base_equations.py and the      *)
(* numpy equations.py): Equation construction, the linear-combination      *)
(* solvers, Equation.solve, tangent-linear derivation and the              *)
(* FixedPointSolver forward and adjoint iterations.                        *)
(*                                                                         *)
(* Functions are scalars (one degree of freedom).  A Function is named by  *)
(* its identity (what Function.id() returns).  Floating point values are   *)
(* modelled as integers, with two distinguished values for infinity and    *)
(* NaN (see the floating point part).                                      *)
(***************************************************************************)
EXTENDS Integers, Sequences, FiniteSets, TLC

(***************************************************************************)
(* Bounds of the model.                                                    *)
(***************************************************************************)
MaxVal == 1
MaxTerms == 2

(***************************************************************************)
(* The universe of Functions.  "s" is flagged static.                      *)
(***************************************************************************)
Vars == {"x", "y", "s"}
StaticVars == {"s"}
Values == (0 - MaxVal)..MaxVal
Alphas == {0 - 1, 1, 2}

\* An absent Python value (None) is the empty sequence, a present one a
\* one-element sequence.
None == <<>>
Some(v) == <<v>>
IsNone(o) == Len(o) = 0
The(o) == o[1]

Range(s) == {s[i] : i \in 1..Len(s)}
NoDup(s) == \A i, j \in 1..Len(s) : s[i] = s[j] => i = j
SeqsUpTo(S, n) == UNION {[1..k -> S] : k \in 0..n}

\* The position (from 0, as Python's list.index) of v in s; Len(s) if absent.
RECURSIVE IndexFrom(_, _, _)
IndexFrom(s, v, i) ==
  IF i > Len(s) THEN Len(s)
  ELSE IF s[i] = v THEN i - 1
  ELSE IndexFrom(s, v, i + 1)
Index0(s, v) == IndexFrom(s, v, 1)

(***************************************************************************)
(* Floating point.  Finite values are integers; IEEE infinity and NaN are  *)
(* two distinguished values that the arithmetic below propagates as IEEE   *)
(* arithmetic does.  Every finite value of the model is far below Inf.     *)
(***************************************************************************)
Inf == 1000000
NaN == 2000000

isnan(a) == a = NaN
IsInf(a) == a = Inf \/ a = 0 - Inf
IsFinite(a) == ~isnan(a) /\ ~IsInf(a)

FNeg(a) == IF isnan(a) THEN NaN ELSE 0 - a

FAdd(a, b) ==
  IF isnan(a) \/ isnan(b) THEN NaN
  ELSE IF IsInf(a) /\ IsInf(b) THEN (IF a = b THEN a ELSE NaN)
  ELSE IF IsInf(a) THEN a
  ELSE IF IsInf(b) THEN b
  ELSE a + b

FMul(a, b) ==
  IF isnan(a) \/ isnan(b) THEN NaN
  ELSE IF IsInf(a) \/ IsInf(b)
    THEN (IF a = 0 \/ b = 0 THEN NaN
          ELSE IF (a > 0) = (b > 0) THEN Inf ELSE 0 - Inf)
  ELSE a * b

\* a < b and a == b on floats: every comparison with NaN is false
FLt(a, b) == ~isnan(a) /\ ~isnan(b) /\ a < b
FEq(a, b) == ~isnan(a) /\ ~isnan(b) /\ a = b

\* Python's max(a, b): b if b > a, else a
PyMax(a, b) == IF FLt(a, b) THEN b ELSE a

VARIABLES
  val,      \* the value of every Function
  lc,       \* the LinearCombinationSolver under study
  lcLast,   \* what the last LinearCombinationSolver operation did
  built,    \* the last constructor call: its arguments and what it gave
  tl,       \* the last tangent_linear call on the object built
  sv,       \* the Equation.solve call in progress and the manager it talks to
  fp,       \* the FixedPointSolver under study and its iteration in progress
  mg,       \* the equation manager a script of solves runs against
  caches,   \* a Function's mutation counter, its Caches and the caches' entries
  cache,    \* one Cache, its keys, its values and every CacheIndex it handed out
  repl,     \* Functions and the placeholders made for them
  tsys      \* a TimeSystem, its time functions and the record of what it solved

\* what each part of the model leaves alone
notLC == <<built, tl, sv, fp, mg, caches, cache, repl, tsys>>
notEq == <<val, lc, lcLast, sv, fp, mg, caches, cache, repl, tsys>>
notSolve == <<lc, lcLast, built, tl, fp, mg, caches, cache, repl, tsys>>
notFP == <<lc, lcLast, built, tl, sv, mg, caches, cache, repl, tsys>>
notMgr == <<lc, lcLast, built, tl, sv, fp, caches, cache, repl, tsys>>

(***************************************************************************)
(* base_interface primitives (the backend interface).                      *)
(***************************************************************************)
NoneId == "None"

is_function(x) == x # NoneId

function_is_static(x) == x \in StaticVars

function_zero(v, x) == [v EXCEPT ![x] = 0]

function_assign(v, x, y) == [v EXCEPT ![x] = v[y]]

function_axpy(v, x, alpha, y) == [v EXCEPT ![x] = FAdd(v[x], FMul(alpha, v[y]))]

function_inner(a, b) == FMul(a, b)

\* a new Function on the space of x holds zero; a copy holds the value of b
function_new(x) == 0

function_copy(b) == b

\* A boundary condition constrains the (single) degree of freedom to bc.g;
\* the conditions are applied in list order.
RECURSIVE apply_bcs(_, _, _)
apply_bcs(v, x, bcs) ==
  IF Len(bcs) = 0 THEN v
  ELSE apply_bcs([v EXCEPT ![x] = Head(bcs).g], x, Tail(bcs))

homogenize_bc(bc) == [g |-> 0]

(***************************************************************************)
(* Equation.__init__                                                       *)
(*   X        the solutions (a tuple)                                      *)
(*   deps     the dependencies                                             *)
(*   nl_deps  None, or Some(tuple of non-linear dependencies)              *)
(* The result is [exc |-> "" or the exception, eq |-> the base fields].    *)
(***************************************************************************)
NoEquation ==
  [X |-> <<>>, deps |-> <<>>, nl_given |-> FALSE, nl_deps |-> <<>>,
   nl_deps_map |-> <<>>, checkpoint_ic |-> <<>>]

Failed(e) == [exc |-> e, eq |-> NoEquation]

\* class EquationException: the messages the modelled code raises it with
EquationExceptions ==
  {"EquationException: Solution must be a Function",
   "EquationException: Solution cannot be static",
   "EquationException: Solution must be a dependency",
   "EquationException: Duplicate dependency",
   "EquationException: Duplicate non-linear dependency",
   "EquationException: Duplicate solve",
   "EquationException: Equation does not solve for exactly one Function",
   "EquationException: Initial guess provided, but nonzero_initial_guess parameter is False",
   "EquationException: Invalid tangent-linear parameter",
   "EquationException: Method not overridden",
   "EquationException: Non-linear dependency in linear equation",
   "EquationException: Fixed point iteration: NaN encountered",
   "EquationException: Fixed point iteration: did not converge"}

\* {dep.id(): i for i, dep in enumerate(deps)}: the last index of each id
dep_ids(deps) ==
  [d \in Range(deps) |->
     (CHOOSE i \in 1..Len(deps) :
        deps[i] = d /\ \A j \in 1..Len(deps) : deps[j] = d => j <= i) - 1]

SolutionCheckNoStatic(X, deps, i) ==
  IF \E k \in 1..Len(X) : ~is_function(X[k])
    THEN "EquationException: Solution must be a Function"
  ELSE IF \E k \in 1..Len(X) : X[k] \notin Range(deps)
    THEN "EquationException: Solution must be a dependency"
  ELSE ""

\* lines 67-73: the first solution that fails a check decides the exception
RECURSIVE SolutionCheck(_, _, _)
SolutionCheck(X, deps, i) ==
  IF i > Len(X) THEN ""
  ELSE IF ~is_function(X[i]) THEN "EquationException: Solution must be a Function"
  ELSE IF function_is_static(X[i]) THEN "EquationException: Solution cannot be static"
  ELSE IF X[i] \notin Range(deps) THEN "EquationException: Solution must be a dependency"
  ELSE SolutionCheck(X, deps, i + 1)

\* lines 74-90, once the solutions have passed
EquationFieldsNoNlCheck(X, deps, nl_deps) ==
  IF Cardinality(Range(deps)) # Len(deps)
    THEN Failed("EquationException: Duplicate dependency")
  ELSE IF IsNone(nl_deps)
    THEN [exc |-> "",
          eq |-> [X |-> X, deps |-> deps, nl_given |-> FALSE, nl_deps |-> <<>>,
                  nl_deps_map |-> [i \in 1..Len(deps) |-> i - 1],
                  checkpoint_ic |-> [i \in 1..Len(X) |-> TRUE]]]
  ELSE LET nl == The(nl_deps) IN
    [exc |-> "",
     eq |-> [X |-> X, deps |-> deps, nl_given |-> TRUE, nl_deps |-> nl,
             nl_deps_map |-> [i \in 1..Len(nl) |->
                                IF nl[i] \in Range(deps) THEN dep_ids(deps)[nl[i]] ELSE 0],
             checkpoint_ic |-> [i \in 1..Len(X) |-> X[i] \in Range(nl)]]]

\* the fields with a solution flagged unless it is a non-linear dependency
EquationFieldsUnlessNonlinear(X, deps, nl_deps) ==
  IF NoneId \in Range(deps) THEN Failed("AttributeError")
  ELSE IF Cardinality(Range(deps)) # Len(deps)
    THEN Failed("EquationException: Duplicate dependency")
  ELSE IF IsNone(nl_deps)
    THEN [exc |-> "",
          eq |-> [X |-> X, deps |-> deps, nl_given |-> FALSE, nl_deps |-> <<>>,
                  nl_deps_map |-> [i \in 1..Len(deps) |-> i - 1],
                  checkpoint_ic |-> [i \in 1..Len(X) |-> X[i] \notin Range(deps)]]]
  ELSE LET nl == The(nl_deps) IN
    IF Cardinality(Range(nl)) # Len(nl)
      THEN Failed("EquationException: Duplicate non-linear dependency")
    ELSE IF \E i \in 1..Len(nl) : nl[i] \notin Range(deps)
      THEN Failed("KeyError")
    ELSE [exc |-> "",
          eq |-> [X |-> X, deps |-> deps, nl_given |-> TRUE, nl_deps |-> nl,
                  nl_deps_map |-> [i \in 1..Len(nl) |-> dep_ids(deps)[nl[i]]],
                  checkpoint_ic |-> [i \in 1..Len(X) |-> X[i] \notin Range(nl)]]]

EquationFields(X, deps, nl_deps) ==
  IF NoneId \in Range(deps) THEN Failed("AttributeError")
  ELSE IF Cardinality(Range(deps)) # Len(deps)
    THEN Failed("EquationException: Duplicate dependency")
  ELSE IF IsNone(nl_deps)
    THEN [exc |-> "",
          eq |-> [X |-> X, deps |-> deps, nl_given |-> FALSE, nl_deps |-> <<>>,
                  nl_deps_map |-> [i \in 1..Len(deps) |-> i - 1],
                  checkpoint_ic |-> [i \in 1..Len(X) |-> TRUE]]]
  ELSE LET nl == The(nl_deps) IN
    IF Cardinality(Range(nl)) # Len(nl)
      THEN Failed("EquationException: Duplicate non-linear dependency")
    ELSE IF \E i \in 1..Len(nl) : nl[i] \notin Range(deps)
      THEN Failed("KeyError")
    ELSE [exc |-> "",
          eq |-> [X |-> X, deps |-> deps, nl_given |-> TRUE, nl_deps |-> nl,
                  nl_deps_map |-> [i \in 1..Len(nl) |-> dep_ids(deps)[nl[i]]],
                  checkpoint_ic |-> [i \in 1..Len(X) |-> X[i] \in Range(nl)]]]

Equation_init(X, deps, nl_deps) ==
  LET sc == SolutionCheck(X, deps, 1) IN
  IF sc # "" THEN Failed(sc) ELSE EquationFields(X, deps, nl_deps)

dependencies(eq) == eq.deps

nonlinear_dependencies(eq) == IF eq.nl_given THEN eq.nl_deps ELSE dependencies(eq)

(***************************************************************************)
(* An equation object of any class.  Fields a class does not have are      *)
(* empty.  exc is "" for an object that was constructed.                   *)
(***************************************************************************)
NoParams ==
  [absolute_tolerance |-> 0, relative_tolerance |-> 0,
   maximum_iterations |-> 0, nonzero_initial_guess |-> FALSE]

NoEqn(kind, exc) ==
  [kind |-> kind, exc |-> exc, eq |-> NoEquation, alpha |-> <<>>, bcs |-> <<>>,
   hbcs |-> <<>>, B |-> <<>>, A |-> None, members |-> <<>>,
   initial_guess_index |-> None, params |-> NoParams]

MkEqn(kind, base) == [NoEqn(kind, base.exc) EXCEPT !.eq = base.eq]

\* Equation.x()
HasOneSolution(e) == Len(e.eq.X) = 1
x_of(e) == e.eq.X[1]

(***************************************************************************)
(* NullSolver, AssignmentSolver, NormSqEquation                            *)
(***************************************************************************)
NullSolver_init(x) == MkEqn("NullSolver", Equation_init(<<x>>, <<x>>, Some(<<>>)))

AssignmentSolver_init(y, x, bcs) ==
  IF x = y
    THEN NoEqn("AssignmentSolver",
               "EquationException: Non-linear dependency in linear equation")
  ELSE LET base == Equation_init(<<x>>, <<x, y>>, Some(<<>>))
       IN IF base.exc # "" THEN NoEqn("AssignmentSolver", base.exc)
          ELSE [MkEqn("AssignmentSolver", base) EXCEPT
                  !.bcs = bcs, !.hbcs = [i \in 1..Len(bcs) |-> homogenize_bc(bcs[i])]]

NormSqEquation_init(y, x) ==
  MkEqn("NormSqEquation", Equation_init(<<x>>, <<x, y>>, Some(<<y>>)))

(***************************************************************************)
(* LinearCombinationSolver, ScaleSolver, AxpySolver                        *)
(***************************************************************************)
NoLC == NoEqn("LinearCombinationSolver", "unbuilt")

\* a constructor without the check of x against the y_i
LinearCombinationSolver_initNoCheck(x, args, bcs) ==
  LET base == Equation_init(<<x>>, <<x>> \o [i \in 1..Len(args) |-> args[i][2]], Some(<<>>))
  IN IF base.exc # "" THEN NoEqn("LinearCombinationSolver", base.exc)
     ELSE [MkEqn("LinearCombinationSolver", base) EXCEPT
             !.alpha = [i \in 1..Len(args) |-> args[i][1]], !.bcs = bcs,
             !.hbcs = [i \in 1..Len(bcs) |-> homogenize_bc(bcs[i])]]

\* __init__(self, x, *args, bcs): args[i] = <<alpha_i, y_i>>
LinearCombinationSolver_init(x, args, bcs) ==
  LET alpha == [i \in 1..Len(args) |-> args[i][1]]
      y == [i \in 1..Len(args) |-> args[i][2]]
  IN IF x \in Range(y)
       THEN NoEqn("LinearCombinationSolver",
                  "EquationException: Non-linear dependency in linear equation")
     ELSE LET hbcs == [i \in 1..Len(bcs) |-> homogenize_bc(bcs[i])]
              base == Equation_init(<<x>>, <<x>> \o y, Some(<<>>))
          IN IF base.exc # "" THEN NoEqn("LinearCombinationSolver", base.exc)
             ELSE [MkEqn("LinearCombinationSolver", base) EXCEPT
                     !.alpha = alpha, !.bcs = bcs, !.hbcs = hbcs]

ScaleSolver_init(alpha, y, x_new) ==
  LinearCombinationSolver_init(x_new, <<<<alpha, y>>>>, <<>>)

AxpySolver_init(x_old, alpha, y, x_new) ==
  LinearCombinationSolver_init(x_new, <<<<1, x_old>>, <<alpha, y>>>>, <<>>)

\* the loop of forward_solve: zip(self._alpha, deps[1:]) stops at the shorter
RECURSIVE AxpyLoop(_, _, _, _, _)
AxpyLoop(v, x, alpha, deps, i) ==
  IF i > Len(alpha) \/ i + 1 > Len(deps) THEN v
  ELSE AxpyLoop(function_axpy(v, x, alpha[i], deps[i + 1]), x, alpha, deps, i + 1)

\* forward_solve(self, x, deps): deps is None or Some(substituted dependencies)
LinearCombinationSolver_forward_solveNoZero(s, v, x, deps) ==
  LET ds == IF IsNone(deps) THEN dependencies(s.eq) ELSE The(deps)
  IN apply_bcs(AxpyLoop(v, x, s.alpha, ds, 1), x, s.bcs)

LinearCombinationSolver_forward_solve(s, v, x, deps) ==
  LET ds == IF IsNone(deps) THEN dependencies(s.eq) ELSE The(deps)
  IN apply_bcs(AxpyLoop(function_zero(v, x), x, s.alpha, ds, 1), x, s.bcs)

\* adjoint_derivative_action(self, nl_deps, dep_index, adj_x).  The return value
\* is the Function itself, a pair (scale, Function), or None; adj_x is the value
\* of the adjoint Function when the call returns.
RetFn(a) == [kind |-> "function", scale |-> 1, fn |-> a]
RetScaled(c, a) == [kind |-> "scaled", scale |-> c, fn |-> a]
RetNone == [kind |-> "None", scale |-> 0, fn |-> 0]

LinearCombinationSolver_adjoint_derivative_actionOffByOne(s, dep_index, adj_x) ==
  IF dep_index = 0 THEN [ret |-> RetFn(adj_x), adj_x |-> adj_x]
  ELSE IF dep_index < Len(s.alpha)
    THEN [ret |-> RetScaled(0 - s.alpha[dep_index], adj_x), adj_x |-> adj_x]
  ELSE [ret |-> RetNone, adj_x |-> adj_x]

LinearCombinationSolver_adjoint_derivative_action(s, dep_index, adj_x) ==
  IF dep_index = 0 THEN [ret |-> RetFn(adj_x), adj_x |-> adj_x]
  ELSE IF dep_index <= Len(s.alpha)
    THEN [ret |-> RetScaled(0 - s.alpha[dep_index], adj_x), adj_x |-> adj_x]
  ELSE [ret |-> RetNone, adj_x |-> adj_x]

(***************************************************************************)
(* RHS terms, Matrix and LinearEquation (numpy equations.py).  A is None or *)
(* the matrix; what a matrix computes is not modelled, only the Functions  *)
(* it holds.                                                               *)
(***************************************************************************)
RHS_init(kind, deps, nl_deps) ==
  IF Cardinality(Range(deps)) # Len(deps)
    THEN [kind |-> kind, exc |-> "EquationException: Duplicate dependency",
          deps |-> <<>>, nl_given |-> FALSE, nl_deps |-> <<>>, alpha |-> 1, A |-> None]
  ELSE IF ~IsNone(nl_deps) /\ Cardinality(Range(The(nl_deps))) # Len(The(nl_deps))
    THEN [kind |-> kind, exc |-> "EquationException: Duplicate non-linear dependency",
          deps |-> <<>>, nl_given |-> FALSE, nl_deps |-> <<>>, alpha |-> 1, A |-> None]
  ELSE [kind |-> kind, exc |-> "", deps |-> deps, nl_given |-> ~IsNone(nl_deps),
        nl_deps |-> IF IsNone(nl_deps) THEN <<>> ELSE The(nl_deps), alpha |-> 1,
        A |-> None]

RHS_nonlinear_dependencies(b) == IF b.nl_given THEN b.nl_deps ELSE b.deps

IdentityRHS_init(x) == RHS_init("IdentityRHS", <<x>>, None)
SumRHS_init(x) == RHS_init("SumRHS", <<x>>, Some(<<>>))
InnerProductRHS_init(y, z) == RHS_init("InnerProductRHS", <<y, z>>, Some(<<y, z>>))
\* InnerProductRHS(y, z, alpha = alpha)
InnerProductRHS_alpha(y, z, alpha) == [InnerProductRHS_init(y, z) EXCEPT !.alpha = alpha]

\* append to acc, in order, the entries of items that acc does not hold yet
RECURSIVE AppendNew(_, _)
AppendNew(acc, items) ==
  IF Len(items) = 0 THEN acc
  ELSE AppendNew(IF Head(items) \in Range(acc) THEN acc ELSE Append(acc, Head(items)),
                 Tail(items))

RECURSIVE Flatten(_)
Flatten(ss) == IF Len(ss) = 0 THEN <<>> ELSE Head(ss) \o Flatten(Tail(ss))

LinearEquation_init(B, X) ==
  IF Cardinality(Range(X)) # Len(X)
    THEN NoEqn("LinearEquation", "EquationException: Duplicate solve")
  ELSE LET deps == AppendNew(X, Flatten([i \in 1..Len(B) |-> B[i].deps]))
           nl_deps == AppendNew(<<>>,
                        Flatten([i \in 1..Len(B) |-> RHS_nonlinear_dependencies(B[i])]))
           base == Equation_init(X, deps, Some(nl_deps))
       IN IF base.exc # "" THEN NoEqn("LinearEquation", base.exc)
          ELSE [MkEqn("LinearEquation", base) EXCEPT !.B = B]

\* Matrix(nl_deps), equations.py 104-108
Matrix_init(nl_deps) ==
  IF Cardinality(Range(nl_deps)) # Len(nl_deps)
    THEN [exc |-> "EquationException: Duplicate non-linear dependency", nl_deps |-> <<>>]
  ELSE [exc |-> "", nl_deps |-> nl_deps]

\* MatrixActionRHS(A, X), equations.py 150-170, for X that shares nothing
\* with the non-linear dependencies of A
MatrixActionRHS_init(A, X) ==
  LET b == IF Len(A.nl_deps) = 0 THEN RHS_init("MatrixActionRHS", X, Some(<<>>))
           ELSE RHS_init("MatrixActionRHS", A.nl_deps \o X, Some(A.nl_deps \o X))
  IN IF b.exc # "" THEN b ELSE [b EXCEPT !.A = Some(A)]

\* LinearEquation(B, X, A), equations.py 188-256
LinearEquation_initA(B, X, A) ==
  IF Cardinality(Range(X)) # Len(X)
    THEN NoEqn("LinearEquation", "EquationException: Duplicate solve")
  ELSE LET deps == AppendNew(AppendNew(X, Flatten([i \in 1..Len(B) |-> B[i].deps])),
                             A.nl_deps)
           nl_B == AppendNew(<<>>,
                     Flatten([i \in 1..Len(B) |-> RHS_nonlinear_dependencies(B[i])]))
           nl_deps == AppendNew(AppendNew(nl_B, A.nl_deps),
                                IF Len(A.nl_deps) > 0 THEN X ELSE <<>>)
           base == Equation_init(X, deps, Some(nl_deps))
       IN IF base.exc # "" THEN NoEqn("LinearEquation", base.exc)
          ELSE [MkEqn("LinearEquation", base) EXCEPT !.B = B, !.A = Some(A)]

\* InnerProductEquation(y, z, x) and SumEquation(y, x)
InnerProductEquation_init(y, z, x) ==
  LET b == InnerProductRHS_init(y, z)
  IN IF b.exc # "" THEN NoEqn("LinearEquation", b.exc)
     ELSE LinearEquation_init(<<b>>, <<x>>)

\* InnerProductEquation(y, z, x, alpha = alpha)
InnerProductEquation_alpha(y, z, x, alpha) ==
  LET e == InnerProductEquation_init(y, z, x)
  IN IF e.exc # "" THEN e
     ELSE [e EXCEPT !.B = <<InnerProductRHS_alpha(y, z, alpha)>>]

(***************************************************************************)
(* FixedPointSolver.__init__(eqs, solver_parameters, initial_guess).       *)
(* solver_parameters is the dictionary after the defaults are filled in;   *)
(* initial_guess is NoneId or a Function.                                  *)
(***************************************************************************)
\* the member loop without the "Duplicate solve" test of line 456
RECURSIVE MemberCheckNoDuplicate(_, _, _)
MemberCheckNoDuplicate(eqs, i, x_ids) ==
  IF i > Len(eqs) THEN ""
  ELSE IF eqs[i].kind = "None" THEN "AttributeError"
  ELSE IF ~HasOneSolution(eqs[i])
    THEN "EquationException: Equation does not solve for exactly one Function"
  ELSE MemberCheckNoDuplicate(eqs, i + 1, x_ids \cup {x_of(eqs[i])})

\* lines 453-459: the first member that fails decides the exception
RECURSIVE MemberCheck(_, _, _)
MemberCheck(eqs, i, x_ids) ==
  IF i > Len(eqs) THEN ""
  ELSE IF eqs[i].kind = "None" THEN "AttributeError"
  ELSE IF ~HasOneSolution(eqs[i])
    THEN "EquationException: Equation does not solve for exactly one Function"
  ELSE IF x_of(eqs[i]) \in x_ids THEN "EquationException: Duplicate solve"
  ELSE MemberCheck(eqs, i + 1, x_ids \cup {x_of(eqs[i])})

FixedPointSolver_init(eqs, solver_parameters, initial_guess) ==
  LET mc == MemberCheck(eqs, 1, {}) IN
  IF mc # "" THEN NoEqn("FixedPointSolver", mc)
  ELSE IF Len(eqs) = 0 THEN NoEqn("FixedPointSolver", "IndexError")
  ELSE IF ~solver_parameters.nonzero_initial_guess /\ initial_guess # NoneId
    THEN NoEqn("FixedPointSolver",
               "EquationException: Initial guess provided, but nonzero_initial_guess parameter is False")
  ELSE
    LET x == x_of(eqs[Len(eqs)])
        explicit == /\ solver_parameters.nonzero_initial_guess
                    /\ initial_guess # NoneId
                    /\ initial_guess # x
        deps0 == IF explicit THEN <<initial_guess>> ELSE <<>>
        deps == AppendNew(deps0, Flatten([i \in 1..Len(eqs) |-> dependencies(eqs[i].eq)]))
        nl_deps == AppendNew(<<>>,
                     Flatten([i \in 1..Len(eqs) |-> nonlinear_dependencies(eqs[i].eq)]))
        base == Equation_init([i \in 1..Len(eqs) |-> x_of(eqs[i])], deps, Some(nl_deps))
    IN IF base.exc # "" THEN NoEqn("FixedPointSolver", base.exc)
       ELSE [MkEqn("FixedPointSolver", base) EXCEPT
               !.members = eqs,
               !.initial_guess_index = IF explicit THEN Some(0) ELSE None,
               !.params = solver_parameters]

\* self._eq_dep_indices[i] and self._eq_nl_dep_indices[i]: where member i's
\* (non-linear) dependencies sit in the solver's own lists
eq_dep_indices(s, i) ==
  [j \in 1..Len(s.members[i].eq.deps) |-> Index0(s.eq.deps, s.members[i].eq.deps[j])]

eq_nl_dep_indices(s, i) ==
  LET nl == nonlinear_dependencies(s.members[i].eq)
  IN [j \in 1..Len(nl) |-> Index0(s.eq.nl_deps, nl[j])]

(***************************************************************************)
(* tangent_linear(self, M, dM, tlm_map) of every class.  M and dM are      *)
(* tuples of the same length; tlm_map[v] is v's tangent-linear companion   *)
(* or NoneId.  The result is [exc, eqn]: an exception, or the returned     *)
(* equation, whose kind is "None" when the method returns None.            *)
(***************************************************************************)
NoneEqn == NoEqn("None", "")
Raised(e) == [exc |-> e, eqn |-> NoneEqn]
Returned(e) == IF e.exc # "" THEN Raised(e.exc) ELSE [exc |-> "", eqn |-> e]
InvalidParameter == "EquationException: Invalid tangent-linear parameter"

\* tau = None; for i, m in enumerate(M): if m == y: tau = dM[i]
RECURSIVE LastDirection(_, _, _, _, _)
LastDirection(M, dM, y, i, tau) ==
  IF i > Len(M) THEN tau
  ELSE LastDirection(M, dM, y, i + 1, IF M[i] = y THEN dM[i] ELSE tau)

\* the direction of y, or when it has none its companion in tlm_map
Tau(M, dM, tlm_map, y) ==
  LET t == LastDirection(M, dM, y, 1, NoneId)
  IN IF t = NoneId THEN tlm_map[y] ELSE t

NullSolver_tangent_linear(e, M, dM, tlm_map) == Returned(NoneEqn)

\* a tangent_linear that never looks for y in M
AssignmentSolver_tangent_linearNoDirection(e, M, dM, tlm_map) ==
  LET x == e.eq.deps[1]
      y == e.eq.deps[2]
  IN IF x \in Range(M) THEN Raised(InvalidParameter)
     ELSE IF tlm_map[y] = NoneId THEN Returned(NoneEqn)
     ELSE Returned(AssignmentSolver_init(tlm_map[y], tlm_map[x], e.hbcs))

AssignmentSolver_tangent_linear(e, M, dM, tlm_map) ==
  LET x == e.eq.deps[1]
      y == e.eq.deps[2]
      tau_y == Tau(M, dM, tlm_map, y)
  IN IF x \in Range(M) THEN Raised(InvalidParameter)
     ELSE IF tau_y = NoneId THEN Returned(NoneEqn)
     ELSE Returned(AssignmentSolver_init(tau_y, tlm_map[x], e.hbcs))

\* companions taken from tlm_map alone, whatever M holds
LCTausMapOnly(e, M, dM, tlm_map) ==
  LET ys == Tail(e.eq.deps) IN [i \in 1..Len(ys) |-> tlm_map[ys[i]]]

\* lines 380-389: a direction goes to the first term whose y is the parameter
LCTaus(e, M, dM, tlm_map) ==
  LET ys == Tail(e.eq.deps)
  IN [i \in 1..Len(ys) |->
        IF Index0(ys, ys[i]) = i - 1 THEN Tau(M, dM, tlm_map, ys[i]) ELSE tlm_map[ys[i]]]

\* the terms with every coefficient taken as one
RECURSIVE LCTangentArgsUnit(_, _, _)
LCTangentArgsUnit(alpha, taus, i) ==
  IF i > Len(alpha) \/ i > Len(taus) THEN <<>>
  ELSE (IF taus[i] = NoneId THEN <<>> ELSE <<<<1, taus[i]>>>>)
       \o LCTangentArgsUnit(alpha, taus, i + 1)

RECURSIVE LCTangentArgs(_, _, _)
LCTangentArgs(alpha, taus, i) ==
  IF i > Len(alpha) \/ i > Len(taus) THEN <<>>
  ELSE (IF taus[i] = NoneId THEN <<>> ELSE <<<<alpha[i], taus[i]>>>>)
       \o LCTangentArgs(alpha, taus, i + 1)

LinearCombinationSolver_tangent_linear(e, M, dM, tlm_map) ==
  LET x == e.eq.deps[1]
      args == LCTangentArgs(e.alpha, LCTaus(e, M, dM, tlm_map), 1)
  IN IF x \in Range(M) THEN Raised(InvalidParameter)
     ELSE IF Len(args) = 0 THEN Returned(NoneEqn)
     ELSE Returned(LinearCombinationSolver_init(tlm_map[x], args, e.hbcs))

NormSqEquation_tangent_linear(e, M, dM, tlm_map) ==
  LET x == e.eq.deps[1]
      y == e.eq.deps[2]
      tau_y == Tau(M, dM, tlm_map, y)
  IN IF x \in Range(M) THEN Raised(InvalidParameter)
     ELSE IF tau_y = NoneId THEN Returned(NoneEqn)
     ELSE Returned(InnerProductEquation_alpha(y, tau_y, tlm_map[x], 2))

\* tangent_linear_rhs of IdentityRHS, SumRHS and InnerProductRHS, as a list
RHS_tangent_linear_rhs(b, M, dM, tlm_map) ==
  IF b.kind = "InnerProductRHS"
    THEN LET y == b.deps[1]
             z == b.deps[2]
             tau_y == Tau(M, dM, tlm_map, y)
             tau_z == Tau(M, dM, tlm_map, z)
         IN (IF tau_y = NoneId THEN <<>> ELSE <<InnerProductRHS_alpha(tau_y, z, b.alpha)>>)
            \o (IF tau_z = NoneId THEN <<>> ELSE <<InnerProductRHS_alpha(y, tau_z, b.alpha)>>)
  ELSE LET tau == Tau(M, dM, tlm_map, b.deps[1])
       IN IF tau = NoneId THEN <<>>
          ELSE IF b.kind = "SumRHS" THEN <<SumRHS_init(tau)>>
          ELSE <<IdentityRHS_init(tau)>>

LinearEquation_tangent_linear(e, M, dM, tlm_map) ==
  LET X == e.eq.X
      tlm_B == Flatten([i \in 1..Len(e.B) |-> RHS_tangent_linear_rhs(e.B[i], M, dM, tlm_map)])
      bad == {i \in 1..Len(tlm_B) : tlm_B[i].exc # ""}
  IN IF \E i \in 1..Len(X) : X[i] \in Range(M) THEN Raised(InvalidParameter)
     ELSE IF bad # {} THEN Raised(tlm_B[CHOOSE i \in bad : \A j \in bad : i <= j].exc)
     ELSE IF Len(tlm_B) = 0 THEN Returned(NoneEqn)
     ELSE Returned(LinearEquation_init(tlm_B, [i \in 1..Len(X) |-> tlm_map[X[i]]]))

\* a member (never a FixedPointSolver itself in this model)
Member_tangent_linear(e, M, dM, tlm_map) ==
  CASE e.kind = "NullSolver" -> NullSolver_tangent_linear(e, M, dM, tlm_map)
    [] e.kind = "AssignmentSolver" -> AssignmentSolver_tangent_linear(e, M, dM, tlm_map)
    [] e.kind = "LinearCombinationSolver" ->
         LinearCombinationSolver_tangent_linear(e, M, dM, tlm_map)
    [] e.kind = "NormSqEquation" -> NormSqEquation_tangent_linear(e, M, dM, tlm_map)
    [] e.kind = "LinearEquation" -> LinearEquation_tangent_linear(e, M, dM, tlm_map)
    [] OTHER -> Raised("EquationException: Method not overridden")

\* lines 655-658: the list comprehension stops at the first member that raises
FixedPointSolver_tangent_linear(e, M, dM, tlm_map) ==
  LET tls == [i \in 1..Len(e.members) |-> Member_tangent_linear(e.members[i], M, dM, tlm_map)]
      bad == {i \in 1..Len(tls) : tls[i].exc # ""}
      guess == IF IsNone(e.initial_guess_index) THEN NoneId
               ELSE tlm_map[e.eq.deps[The(e.initial_guess_index) + 1]]
  IN IF bad # {} THEN Raised(tls[CHOOSE i \in bad : \A j \in bad : i <= j].exc)
     ELSE Returned(FixedPointSolver_init([i \in 1..Len(tls) |-> tls[i].eqn], e.params, guess))

tangent_linear(e, M, dM, tlm_map) ==
  IF e.kind = "FixedPointSolver" THEN FixedPointSolver_tangent_linear(e, M, dM, tlm_map)
  ELSE Member_tangent_linear(e, M, dM, tlm_map)

(***************************************************************************)
(* The linear-combination state machine: construct one solver, change the  *)
(* Functions' values, forward-solve it, take adjoint derivative actions.   *)
(***************************************************************************)
Bcs == {<<>>, <<[g |-> 1]>>}
LCArgs == SeqsUpTo(Alphas \X Vars, MaxTerms)

\* dependencies handed to forward_solve in place of the solver's own: the
\* solution, then v for every y_i
LCOverride(v) == [i \in 1..Len(lc.eq.deps) |-> IF i = 1 THEN lc.eq.deps[1] ELSE v]

\* directions handed to adjoint_derivative_action
AdjValues == {0 - 1, 1}

NoLast ==
  [op |-> "none", pre |-> [v \in Vars |-> 0], override |-> FALSE,
   dep_index |-> 0, adj_pre |-> 0, adj_post |-> 0, ret |-> RetNone,
   deps |-> None, chain |-> <<>>, M |-> <<>>, dM |-> <<>>,
   tlm_map |-> [v \in Vars |-> NoneId], tl |-> [exc |-> "", eqn |-> NoneEqn]]

LCInit ==
  /\ val \in {v \in [Vars -> Values] : v["s"] = 1}
  /\ lc = NoLC
  /\ lcLast = NoLast

LCConstruct ==
  /\ lc.exc # ""
  /\ \E x \in Vars, args \in LCArgs, bcs \in Bcs :
    /\ lc' = LinearCombinationSolver_init(x, args, bcs)
    /\ lcLast' = [NoLast EXCEPT !.op = "init"]
    /\ UNCHANGED val
    /\ UNCHANGED notLC

\* user code writes a non-static Function
LCAssign ==
  \E x \in Vars \ StaticVars, a \in Values :
    /\ val' = [val EXCEPT ![x] = a]
    /\ lcLast' = [NoLast EXCEPT !.op = "assign"]
    /\ UNCHANGED lc
    /\ UNCHANGED notLC

LCForwardSolve ==
  /\ lc.exc = ""
  /\ \E deps \in {None} \cup {Some(LCOverride(v)) : v \in Vars} :
    /\ val' = LinearCombinationSolver_forward_solve(lc, val, lc.eq.X[1], deps)
    /\ lcLast' = [NoLast EXCEPT !.op = "forward_solve", !.pre = val,
                                 !.override = ~IsNone(deps)]
    /\ UNCHANGED lc
    /\ UNCHANGED notLC

LCAdjointDerivativeAction ==
  /\ lc.exc = ""
  /\ \E dep_index \in 0..(MaxTerms + 1), adj_x \in AdjValues :
    /\ LET r == LinearCombinationSolver_adjoint_derivative_action(lc, dep_index, adj_x)
       IN lcLast' = [NoLast EXCEPT !.op = "adjoint_derivative_action",
                                    !.dep_index = dep_index, !.adj_pre = adj_x,
                                    !.adj_post = r.adj_x, !.ret = r.ret]
    /\ UNCHANGED <<val, lc>>
    /\ UNCHANGED notLC

LCNext == LCConstruct \/ LCAssign \/ LCForwardSolve \/ LCAdjointDerivativeAction

(***************************************************************************)
(* replace.  The manager hands _replace a map from the equation's          *)
(* dependencies to their placeholders; _replace looks every Function it    *)
(* holds up in the map and keeps the ones the map does not have.           *)
(***************************************************************************)
PlaceholderOf == [x |-> "replaced_x", y |-> "replaced_y", s |-> "replaced_s"]
Placeholders == {PlaceholderOf[v] : v \in Vars}

\* replace_map.get(x, x)
replace_map_get(replace_map, x) ==
  IF x \in DOMAIN replace_map THEN replace_map[x] ELSE x

ReplaceIn(replace_map, fs) ==
  [i \in 1..Len(fs) |-> replace_map_get(replace_map, fs[i])]

\* lines 101-110
Equation__replace(e, replace_map) ==
  [e EXCEPT !.eq.X = ReplaceIn(replace_map, @),
            !.eq.deps = ReplaceIn(replace_map, @),
            !.eq.nl_deps = IF e.eq.nl_given THEN ReplaceIn(replace_map, @) ELSE @]

\* equations.py 55-58: RHS.replace, which MatrixActionRHS inherits
RHS_replace(b, replace_map) ==
  [b EXCEPT !.deps = ReplaceIn(replace_map, @),
            !.nl_deps = IF b.nl_given THEN ReplaceIn(replace_map, @) ELSE @]

\* equations.py 110-111
Matrix_replace(A, replace_map) == [A EXCEPT !.nl_deps = ReplaceIn(replace_map, @)]

\* equations.py 258-263
LinearEquation__replace(e, replace_map) ==
  [Equation__replace(e, replace_map) EXCEPT
     !.B = [i \in 1..Len(e.B) |-> RHS_replace(e.B[i], replace_map)],
     !.A = IF IsNone(e.A) THEN None ELSE Some(Matrix_replace(The(e.A), replace_map))]

\* a member of a FixedPointSolver, or an equation that is not one
Member__replace(e, replace_map) ==
  IF e.kind = "LinearEquation" THEN LinearEquation__replace(e, replace_map)
  ELSE Equation__replace(e, replace_map)

\* lines 516-519
FixedPointSolver__replace(e, replace_map) ==
  [Equation__replace(e, replace_map) EXCEPT
     !.members = [i \in 1..Len(e.members) |-> Member__replace(e.members[i], replace_map)]]

\* manager.replace(eq): every dependency of eq is given its placeholder
EquationManager_replace(e) ==
  LET replace_map == [d \in Range(e.eq.deps) |-> PlaceholderOf[d]]
  IN IF e.kind = "FixedPointSolver" THEN FixedPointSolver__replace(e, replace_map)
     ELSE Member__replace(e, replace_map)

(***************************************************************************)
(* Construction and tangent-linear derivation: every constructor is        *)
(* called with arguments from the small universe, then tangent_linear is   *)
(* called on what was built.                                               *)
(***************************************************************************)
MaxParams == 2

TlmOf == [x |-> "tlm_x", y |-> "tlm_y", s |-> "tlm_s"]
DirOf == [x |-> "d_x", y |-> "d_y", s |-> "d_s"]
TlmMaps == {m \in [Vars -> {TlmOf[v] : v \in Vars} \cup {NoneId}] :
              \A v \in Vars : m[v] \in {TlmOf[v], NoneId}}
Params == {M \in UNION {[1..k -> Vars] : k \in 1..MaxParams} : NoDup(M)}

FPParams0 == {[NoParams EXCEPT !.maximum_iterations = 1, !.nonzero_initial_guess = b] :
                b \in BOOLEAN}

RHSs == {IdentityRHS_init(v) : v \in Vars} \cup {SumRHS_init(v) : v \in Vars}

\* the equations a FixedPointSolver may be given as members
MemberEqns ==
  {e \in {NullSolver_init(x) : x \in Vars}
           \cup {AssignmentSolver_init(y, x, <<>>) : y, x \in Vars}
           \cup {ScaleSolver_init(2, "s", x) : x \in Vars}
           \cup {NormSqEquation_init("x", "y"), NormSqEquation_init("s", "x")}
           \cup {LinearEquation_init(<<SumRHS_init("y")>>, <<"x">>),
                 LinearEquation_init(<<IdentityRHS_init("s")>>, <<"x", "y">>)} :
     e.exc = ""}

NoArgs == [eqs |-> <<>>, params |-> NoParams, guess |-> NoneId]
NoBuilt == [variant |-> "none", X |-> <<>>, deps |-> <<>>, nl |-> None,
            obj |-> NoEqn("None", "unbuilt"), args |-> NoArgs,
            replaced |-> FALSE, after |-> NoEqn("None", "unbuilt")]
NoTL == [called |-> FALSE, M |-> <<>>, dM |-> <<>>, tlm_map |-> [v \in Vars |-> NoneId],
         exc |-> "", eqn |-> NoneEqn]

Built(variant, X, obj) == [NoBuilt EXCEPT !.variant = variant, !.X = X, !.obj = obj]

EqInit ==
  /\ built = NoBuilt
  /\ tl = NoTL

ConstructEquation ==
  /\ built.variant = "none"
  /\ \E X \in SeqsUpTo(Vars, 2), deps \in SeqsUpTo(Vars, 3),
        nl \in {None} \cup {Some(n) : n \in SeqsUpTo(Vars, 2)} :
       /\ built' = [NoBuilt EXCEPT !.variant = "Equation", !.X = X, !.deps = deps,
                                   !.nl = nl,
                                   !.obj = MkEqn("Equation", Equation_init(X, deps, nl))]
       /\ tl' = NoTL
       /\ UNCHANGED notEq

ConstructNullSolver ==
  /\ built.variant = "none"
  /\ \E x \in Vars :
       /\ built' = Built("NullSolver", <<x>>, NullSolver_init(x))
       /\ tl' = NoTL
       /\ UNCHANGED notEq

ConstructAssignmentSolver ==
  /\ built.variant = "none"
  /\ \E y \in Vars, x \in Vars, bcs \in Bcs :
       /\ built' = [Built("AssignmentSolver", <<x>>, AssignmentSolver_init(y, x, bcs))
                      EXCEPT !.deps = <<x, y>>]
       /\ tl' = NoTL
       /\ UNCHANGED notEq

ConstructLinearCombinationSolver ==
  /\ built.variant = "none"
  /\ \E x \in Vars, args \in LCArgs, bcs \in Bcs :
       /\ built' = [Built("LinearCombinationSolver", <<x>>,
                          LinearCombinationSolver_init(x, args, bcs))
                      EXCEPT !.deps = <<x>> \o [i \in 1..Len(args) |-> args[i][2]]]
       /\ tl' = NoTL
       /\ UNCHANGED notEq

ConstructScaleSolver ==
  /\ built.variant = "none"
  /\ \E alpha \in Alphas, y \in Vars, x_new \in Vars :
       /\ built' = [Built("ScaleSolver", <<x_new>>, ScaleSolver_init(alpha, y, x_new))
                      EXCEPT !.deps = <<x_new, y>>]
       /\ tl' = NoTL
       /\ UNCHANGED notEq

ConstructAxpySolver ==
  /\ built.variant = "none"
  /\ \E x_old \in Vars, alpha \in Alphas, y \in Vars, x_new \in Vars :
       /\ built' = [Built("AxpySolver", <<x_new>>,
                          AxpySolver_init(x_old, alpha, y, x_new))
                      EXCEPT !.deps = <<x_new, x_old, y>>]
       /\ tl' = NoTL
       /\ UNCHANGED notEq

ConstructNormSqEquation ==
  /\ built.variant = "none"
  /\ \E y \in Vars, x \in Vars :
       /\ built' = Built("NormSqEquation", <<x>>, NormSqEquation_init(y, x))
       /\ tl' = NoTL
       /\ UNCHANGED notEq

ConstructLinearEquation ==
  /\ built.variant = "none"
  /\ \E B \in UNION {[1..k -> RHSs] : k \in 1..2}, X \in UNION {[1..k -> Vars] : k \in 1..2} :
       /\ built' = Built("LinearEquation", X, LinearEquation_init(B, X))
       /\ tl' = NoTL
       /\ UNCHANGED notEq

\* the matrices, and the right-hand sides that are matrix actions
Matrices == {Matrix_init(<<>>), Matrix_init(<<"y">>)}
MatrixActions == {MatrixActionRHS_init(A, <<"s">>) : A \in Matrices}

ConstructLinearEquationMatrix ==
  /\ built.variant = "none"
  /\ \E b \in MatrixActions \cup {IdentityRHS_init("s")}, A \in Matrices :
       /\ built' = Built("LinearEquationMatrix", <<"x">>,
                         LinearEquation_initA(<<b>>, <<"x">>, A))
       /\ tl' = NoTL
       /\ UNCHANGED notEq

ConstructFixedPointSolver ==
  /\ built.variant = "none"
  /\ \E eqs \in SeqsUpTo(MemberEqns, 2), ps \in FPParams0, guess \in Vars \cup {NoneId} :
       /\ built' = [Built("FixedPointSolver", [i \in 1..Len(eqs) |-> eqs[i].eq.X[1]],
                          FixedPointSolver_init(eqs, ps, guess))
                      EXCEPT !.args = [eqs |-> eqs, params |-> ps, guess |-> guess]]
       /\ tl' = NoTL
       /\ UNCHANGED notEq

\* eq.replace() on what was built: obj is the equation as it was
\* constructed, after is the equation as replace leaves it
Replace ==
  /\ built.obj.exc = ""
  /\ ~built.replaced
  /\ ~tl.called
  /\ built' = [built EXCEPT !.replaced = TRUE,
                            !.after = EquationManager_replace(built.obj)]
  /\ UNCHANGED tl
  /\ UNCHANGED notEq

TangentLinear ==
  /\ built.obj.exc = ""
  /\ built.variant \notin {"Equation", "LinearEquationMatrix"}
  /\ ~built.replaced
  /\ ~tl.called
  /\ \E M \in Params, tlm_map \in TlmMaps :
       LET dM == [i \in 1..Len(M) |-> DirOf[M[i]]]
           r == tangent_linear(built.obj, M, dM, tlm_map)
       IN tl' = [called |-> TRUE, M |-> M, dM |-> dM, tlm_map |-> tlm_map,
                 exc |-> r.exc, eqn |-> r.eqn]
  /\ UNCHANGED built
  /\ UNCHANGED notEq

EqNext ==
  \/ ConstructEquation
  \/ ConstructNullSolver
  \/ ConstructAssignmentSolver
  \/ ConstructLinearCombinationSolver
  \/ ConstructScaleSolver
  \/ ConstructAxpySolver
  \/ ConstructNormSqEquation
  \/ ConstructLinearEquation
  \/ ConstructLinearEquationMatrix
  \/ ConstructFixedPointSolver
  \/ Replace
  \/ TangentLinear

(***************************************************************************)
(* forward_solve of the classes that Equation.solve and the fixed point    *)
(* iteration call.  The result is the set of Function values the call can  *)
(* leave behind; the base class method raises.  A UserEquation is a user's *)
(* subclass of Equation that overrides the methods: what it computes is    *)
(* not constrained, so every value is a possible result.                   *)
(***************************************************************************)
UserValues == Values \cup {MaxVal + 1, Inf, NaN}

UserEquation_init(X, deps, nl_deps) == MkEqn("UserEquation", Equation_init(X, deps, nl_deps))

\* a forward_solve that leaves x as it is
NullSolver_forward_solveKeep(e, v, x) == v

NullSolver_forward_solve(e, v, x) == function_zero(v, x)

\* an assignment that adds y to what x holds
AssignmentSolver_forward_solveLeak(e, v, x, deps) ==
  function_axpy(v, x, 1, dependencies(e.eq)[2])

\* a forward_solve that reads the Equation's own y whatever deps is
AssignmentSolver_forward_solveOwn(e, v, x, deps) ==
  apply_bcs(function_assign(v, x, dependencies(e.eq)[2]), x, e.bcs)

\* lines 309-312: forward_solve(self, x, deps), deps None or Some(<<_, y>>)
AssignmentSolver_forward_solve(e, v, x, deps) ==
  LET y == IF IsNone(deps) THEN dependencies(e.eq)[2] ELSE The(deps)[2]
  IN apply_bcs(function_assign(v, x, y), x, e.bcs)

\* equations.py 440-442: x = y . y
NormSqEquation_forward_solve(e, v, x) ==
  LET y == dependencies(e.eq)[2] IN [v EXCEPT ![x] = function_inner(v[y], v[y])]

\* add_forward of IdentityRHS, SumRHS and InnerProductRHS (equations.py
\* 82-84, 353-355, 395-397)
RHS_add_forward(b, v, x) ==
  IF b.kind = "InnerProductRHS"
    THEN [v EXCEPT ![x] = FAdd(v[x], function_inner(v[b.deps[1]], FMul(b.alpha, v[b.deps[2]])))]
  ELSE [v EXCEPT ![x] = FAdd(v[x], v[b.deps[1]])]

RECURSIVE AddForwardFrom(_, _, _, _)
AddForwardFrom(B, v, x, i) ==
  IF i > Len(B) THEN v ELSE AddForwardFrom(B, RHS_add_forward(B[i], v, x), x, i + 1)

\* equations.py 265-275, for one solution and no matrix
LinearEquation_forward_solve(e, v, x) == AddForwardFrom(e.B, function_zero(v, x), x, 1)

Equation_forward_solve_raises(e) == e.kind = "Equation"

Equation_forward_solve(e, v) ==
  CASE e.kind = "NullSolver" -> {NullSolver_forward_solve(e, v, x_of(e))}
    [] e.kind = "AssignmentSolver" -> {AssignmentSolver_forward_solve(e, v, x_of(e), None)}
    [] e.kind = "LinearCombinationSolver" ->
         {LinearCombinationSolver_forward_solve(e, v, x_of(e), None)}
    [] e.kind = "NormSqEquation" -> {NormSqEquation_forward_solve(e, v, x_of(e))}
    [] e.kind = "LinearEquation" /\ HasOneSolution(e) /\ IsNone(e.A) ->
         {LinearEquation_forward_solve(e, v, x_of(e))}
    [] e.kind = "UserEquation" ->
         {[w \in Vars |-> IF w \in Range(e.eq.X) THEN f[w] ELSE v[w]] :
            f \in [Range(e.eq.X) -> UserValues]}
    [] OTHER -> {}

(***************************************************************************)
(* FixedPointSolver.forward_solve and adjoint_jacobian_solve.  A call is   *)
(* followed pass by pass; rs keeps the squared change norm of every pass.  *)
(***************************************************************************)
MaxIts == 3

FixedPointNaN == "EquationException: Fixed point iteration: NaN encountered"
FixedPointDidNotConverge == "EquationException: Fixed point iteration: did not converge"

\* lines 529-534: the value the final solution starts the iteration with
FixedPointSolver_seedZero(s, v) == function_zero(v, s.eq.X[Len(s.eq.X)])

FixedPointSolver_seed(s, v) ==
  LET x == s.eq.X[Len(s.eq.X)] IN
  IF s.params.nonzero_initial_guess
    THEN IF ~IsNone(s.initial_guess_index)
           THEN function_assign(v, x, dependencies(s.eq)[The(s.initial_guess_index) + 1])
         ELSE v
  ELSE function_zero(v, x)

\* a pass over the members from the last to the first
RECURSIVE MembersForwardReversed(_, _, _)
MembersForwardReversed(eqs, i, v) ==
  IF i > Len(eqs) THEN {v}
  ELSE UNION {MembersForwardReversed(eqs, i + 1, w) :
                w \in Equation_forward_solve(eqs[Len(eqs) + 1 - i], v)}

\* lines 547-548: one pass over the members, in order
RECURSIVE MembersForward(_, _, _)
MembersForward(eqs, i, v) ==
  IF i > Len(eqs) THEN {v}
  ELSE UNION {MembersForward(eqs, i + 1, w) : w \in Equation_forward_solve(eqs[i], v)}

\* lines 550-552 and 602-604: r = x_0 - x, r_norm_sq = (r, r)
ChangeNormSq(x_0, x) ==
  LET r == FAdd(x_0, FMul(0 - 1, x)) IN function_inner(r, r)

\* lines 555-560 and 607-612: what the loop does after a pass
IterationOutcomeNoLimit(it, r_norm_sq, tolerance_sq, maximum_iterations) ==
  IF isnan(r_norm_sq) THEN FixedPointNaN
  ELSE IF FLt(r_norm_sq, tolerance_sq) \/ FEq(r_norm_sq, 0) THEN "break"
  ELSE "continue"

IterationOutcome(it, r_norm_sq, tolerance_sq, maximum_iterations) ==
  IF isnan(r_norm_sq) THEN FixedPointNaN
  ELSE IF FLt(r_norm_sq, tolerance_sq) \/ FEq(r_norm_sq, 0) THEN "break"
  ELSE IF it >= maximum_iterations THEN FixedPointDidNotConverge
  ELSE "continue"

\* lines 561-562 and 613-614
NextToleranceEveryPass(it, tolerance_sq, r_norm_sq, relative_tolerance) ==
  PyMax(tolerance_sq, FMul(r_norm_sq, FMul(relative_tolerance, relative_tolerance)))

NextTolerance(it, tolerance_sq, r_norm_sq, relative_tolerance) ==
  IF it = 1
    THEN PyMax(tolerance_sq, FMul(r_norm_sq, FMul(relative_tolerance, relative_tolerance)))
  ELSE tolerance_sq

\* lines 545 and 550-565 (602-617): the loop state after a pass that left the
\* final solution at x
FixedPointSolver_after_pass(f, x) ==
  LET it == f.it + 1
      r_norm_sq == ChangeNormSq(f.x_0, x)
      o == IterationOutcome(it, r_norm_sq, f.tolerance_sq,
                            f.solver.params.maximum_iterations)
      g == [f EXCEPT !.it = it, !.rs = Append(f.rs, r_norm_sq)]
  IN IF o = "break" THEN [g EXCEPT !.status = "returned"]
     ELSE IF o = "continue"
       THEN [g EXCEPT !.x_0 = x,
                      !.tolerance_sq = NextTolerance(it, f.tolerance_sq, r_norm_sq,
                                         f.solver.params.relative_tolerance)]
     ELSE [g EXCEPT !.status = "raised", !.exc = o]

\* every class answering None for each dependency but the solution
Equation_adjoint_derivative_actionSolutionOnly(e, dep_index, adj_x) ==
  IF dep_index = 0 THEN RetFn(adj_x) ELSE RetNone

\* adjoint_derivative_action and adjoint_jacobian_solve of the member classes
Equation_adjoint_derivative_action(e, dep_index, adj_x) ==
  CASE e.kind = "NullSolver" -> IF dep_index = 0 THEN RetFn(adj_x) ELSE RetNone
    [] e.kind = "AssignmentSolver" ->
         IF dep_index = 0 THEN RetFn(adj_x)
         ELSE IF dep_index = 1 THEN RetScaled(0 - 1, adj_x)
         ELSE RetNone
    [] e.kind = "LinearCombinationSolver" ->
         LinearCombinationSolver_adjoint_derivative_action(e, dep_index, adj_x).ret
    [] OTHER -> IF dep_index = 0 THEN RetFn(adj_x) ELSE RetScaled(0 - 1, adj_x)

Equation_adjoint_jacobian_solve(e, b) ==
  CASE e.kind = "NullSolver" -> {b}
    [] e.kind \in {"AssignmentSolver", "LinearCombinationSolver"} ->
         {apply_bcs([n \in {"b"} |-> b], "b", e.hbcs)["b"]}
    [] e.kind = "NormSqEquation" -> {b}
    [] OTHER -> UserValues

\* equations.py 447-453: nl_deps[0] is y at the time of the solve
NormSqEquation_adjoint_derivative_action(e, nl_deps, dep_index, adj_x) ==
  IF dep_index = 0 THEN RetFn(adj_x)
  ELSE IF dep_index = 1 THEN RetScaled(0 - 2, FMul(adj_x, nl_deps[1]))
  ELSE RetNone

\* adjoint_derivative_action(nl_deps, dep_index, adj_x) of a recorded equation
AdjointDerivativeAction(e, nl_deps, dep_index, adj_x) ==
  IF e.kind = "NormSqEquation"
    THEN NormSqEquation_adjoint_derivative_action(e, nl_deps, dep_index, adj_x)
  ELSE Equation_adjoint_derivative_action(e, dep_index, adj_x)

subtract_adjoint_derivative_action(a, sb) ==
  CASE sb.kind = "None" -> a
    [] sb.kind = "function" -> FAdd(a, FNeg(sb.fn))
    [] OTHER -> FAdd(a, FNeg(FMul(sb.scale, sb.fn)))

\* a map that also lists a member's dependency on its own solution
tdepsOwn(s, k) ==
  LET pairs == Flatten([i \in 1..Len(s.members) |->
                 [j \in 1..Len(dependencies(s.members[i].eq)) |-> <<j - 1, i - 1>>]])
  IN SelectSeq(pairs,
       LAMBDA p : dependencies(s.members[p[2] + 1].eq)[p[1] + 1] = x_of(s.members[k + 1]))

\* lines 623-631: self._tdeps[k] holds <<j, i>> (both from 0) when
\* dependency j of member i is the solution of another member k
tdeps(s, k) ==
  LET pairs == Flatten([i \in 1..Len(s.members) |->
                 [j \in 1..Len(dependencies(s.members[i].eq)) |-> <<j - 1, i - 1>>]])
  IN SelectSeq(pairs,
       LAMBDA p : /\ p[2] # k
                  /\ dependencies(s.members[p[2] + 1].eq)[p[1] + 1] = x_of(s.members[k + 1]))

\* lines 621-622: the map is built when self._tdeps is None and kept otherwise
FixedPointSolver_init_adjoint_jacobian_solve(s, cached) ==
  IF IsNone(cached) THEN Some([k \in 1..Len(s.members) |-> tdeps(s, k - 1)]) ELSE cached

\* lines 633-634
FixedPointSolver_reset_adjoint_jacobian_solve(f) == [f EXCEPT !.tdeps = None]

\* lines 594-597
RECURSIVE SubtractActions(_, _, _, _, _)
SubtractActions(s, adj_X, a, td, p) ==
  IF p > Len(td) THEN a
  ELSE LET sb == Equation_adjoint_derivative_action(s.members[td[p][2] + 1], td[p][1],
                                                   adj_X[td[p][2] + 1])
       IN SubtractActions(s, adj_X, subtract_adjoint_derivative_action(a, sb), td, p + 1)

\* the members from the last to the first
AdjointOrderReverse(n, m) == n + 1 - m

\* lines 590-591: the member (from 1) visited at step m of a pass
AdjointOrder(n, m) == (((n - m) - 1 + n) % n) + 1

\* lines 590-599: one pass, every adj_X it can leave
RECURSIVE AdjointMembers(_, _, _, _, _)
AdjointMembers(s, td, B, adj_X, m) ==
  IF m > Len(s.members) THEN {adj_X}
  ELSE LET i == AdjointOrder(Len(s.members), m)
           b == SubtractActions(s, adj_X, B[i], td[i], 1)
       IN UNION {AdjointMembers(s, td, B, [adj_X EXCEPT ![i] = a], m + 1) :
                   a \in Equation_adjoint_jacobian_solve(s.members[i], b)}

\* the solvers that are iterated
FPMembers ==
  {UserEquation_init(<<"x">>, <<"x", "y">>, None),
   AssignmentSolver_init("x", "y", <<>>),
   AssignmentSolver_init("y", "x", <<>>),
   ScaleSolver_init(0 - 1, "x", "y"),
   NullSolver_init("x")}

FPParams ==
  [absolute_tolerance : {0, 1}, relative_tolerance : {0, 1, 2},
   maximum_iterations : 1..MaxIts, nonzero_initial_guess : BOOLEAN]

FPGuesses == {NoneId, "s", "x"}

\* the right-hand sides B of the adjoint systems
FPRhs(n) == {[i \in 1..n |-> b] : b \in {0, 1}}

NoFP ==
  [status |-> "unbuilt", mode |-> "none", solver |-> NoneEqn, guess |-> NoneId,
   pre |-> [v \in Vars |-> 0], seed |-> 0, it |-> 0, x_0 |-> 0, tolerance_sq |-> 0,
   rs |-> <<>>, exc |-> "", B |-> <<>>, adj_X |-> <<>>, tdeps |-> None]

FPInit ==
  /\ val \in {v \in [Vars -> {0 - 1, 0, 1}] : v["y"] = 0 /\ v["s"] = 1 /\ v["x"] # 0}
  /\ fp = NoFP

\* FixedPointSolver(eqs, solver_parameters, initial_guess) returns a solver
FPConstruct ==
  /\ fp.status = "unbuilt"
  /\ \E eqs \in SeqsUpTo(FPMembers, 2), ps \in FPParams, guess \in FPGuesses :
       LET s == FixedPointSolver_init(eqs, ps, guess)
       IN /\ s.exc = ""
          /\ fp' = [NoFP EXCEPT !.status = "built", !.solver = s, !.guess = guess]
  /\ UNCHANGED val
  /\ UNCHANGED notFP

\* forward_solve(X), lines 523-543
FPForwardSolveBegin ==
  /\ fp.status = "built"
  /\ val' = FixedPointSolver_seed(fp.solver, val)
  /\ fp' = [fp EXCEPT !.status = "running", !.mode = "forward", !.pre = val,
                      !.seed = val'[fp.solver.eq.X[Len(fp.solver.eq.X)]],
                      !.it = 0, !.x_0 = function_new(fp.solver.eq.X[Len(fp.solver.eq.X)]),
                      !.tolerance_sq = FMul(fp.solver.params.absolute_tolerance,
                                            fp.solver.params.absolute_tolerance)]
  /\ UNCHANGED notFP

\* one turn of the loop of lines 544-565
FPForwardPass ==
  /\ fp.status = "running"
  /\ fp.mode = "forward"
  /\ \E w \in MembersForward(fp.solver.members, 1, val) :
       /\ val' = w
       /\ fp' = FixedPointSolver_after_pass(fp, w[fp.solver.eq.X[Len(fp.solver.eq.X)]])
  /\ UNCHANGED notFP

\* adjoint_jacobian_solve(nl_deps, B), lines 573-586, of a solver that is
\* newly built or at rest after an earlier call
FPAdjointSolveBegin ==
  /\ fp.status \in {"built", "rest"}
  /\ \E B \in FPRhs(Len(fp.solver.members)) :
       fp' = [NoFP EXCEPT !.solver = fp.solver, !.guess = fp.guess,
                          !.status = "running", !.mode = "adjoint", !.pre = val,
                          !.tdeps = FixedPointSolver_init_adjoint_jacobian_solve(fp.solver,
                                                                                 fp.tdeps),
                          !.B = B, !.adj_X = [i \in 1..Len(B) |-> function_copy(B[i])],
                          !.it = 0, !.x_0 = function_new(B[Len(B)]),
                          !.tolerance_sq = FMul(fp.solver.params.absolute_tolerance,
                                                fp.solver.params.absolute_tolerance)]
  /\ UNCHANGED val
  /\ UNCHANGED notFP

\* one turn of the loop of lines 587-617
FPAdjointPass ==
  /\ fp.status = "running"
  /\ fp.mode = "adjoint"
  /\ \E adj_X \in AdjointMembers(fp.solver, The(fp.tdeps), fp.B, fp.adj_X, 1) :
       fp' = FixedPointSolver_after_pass([fp EXCEPT !.adj_X = adj_X], adj_X[Len(adj_X)])
  /\ UNCHANGED val
  /\ UNCHANGED notFP

\* the caller has taken what adjoint_jacobian_solve returned or raised: the
\* solver is at rest, with the map that the call has left in self._tdeps
FPAdjointSolveEnd ==
  /\ fp.status \in {"returned", "raised"}
  /\ fp.mode = "adjoint"
  /\ fp' = [NoFP EXCEPT !.solver = fp.solver, !.guess = fp.guess, !.status = "rest",
                        !.tdeps = fp.tdeps]
  /\ UNCHANGED val
  /\ UNCHANGED notFP

\* reset_adjoint_jacobian_solve() on a solver at rest leaves it as built
FPResetAdjointJacobianSolve ==
  /\ fp.status = "rest"
  /\ fp' = [FixedPointSolver_reset_adjoint_jacobian_solve(fp) EXCEPT !.status = "built"]
  /\ UNCHANGED val
  /\ UNCHANGED notFP

FPNext ==
  \/ FPConstruct
  \/ FPForwardSolveBegin
  \/ FPForwardPass
  \/ FPAdjointSolveBegin
  \/ FPAdjointPass
  \/ FPAdjointSolveEnd
  \/ FPResetAdjointJacobianSolve

(***************************************************************************)
(* Equation.solve against the manager.  The manager records the calls it   *)
(* receives; add_initial_condition reads the Function it is handed.        *)
(***************************************************************************)
Event(op, x, value) == [op |-> op, x |-> x, value |-> value]

manager_add_initial_condition(v, x) == Event("add_initial_condition", x, v[x])
manager_add_equation == Event("add_equation", NoneId, 0)
manager_stop(m) == [m EXCEPT !.saved = <<m.annotation, m.tlm>>,
                             !.annotation = FALSE, !.tlm = FALSE]
\* a start() that switches both on
manager_startBoth(m, annotation, tlm) == [m EXCEPT !.annotation = TRUE, !.tlm = TRUE]

manager_start(m, annotation, tlm) == [m EXCEPT !.annotation = annotation, !.tlm = tlm]

\* _pre_annotate: the calls made for X[i..], in order
RECURSIVE pre_annotate_from(_, _, _)
pre_annotate_from(eq, v, i) ==
  IF i > Len(eq.X) THEN <<>>
  ELSE (IF eq.checkpoint_ic[i] THEN <<manager_add_initial_condition(v, eq.X[i])>> ELSE <<>>)
         \o pre_annotate_from(eq, v, i + 1)

Equation_pre_annotateAll(eq, v) ==
  [i \in 1..Len(eq.X) |-> manager_add_initial_condition(v, eq.X[i])]

Equation_pre_annotate(eq, v) == pre_annotate_from(eq, v, 1)

\* lines 521-565 as one call: every way forward_solve(X) can end from the
\* values v, the Functions as it leaves them and the exception it raises
RECURSIVE FixedPointSolver_passes(_, _)
FixedPointSolver_passes(f, v) ==
  UNION {LET g == FixedPointSolver_after_pass(f, w[f.solver.eq.X[Len(f.solver.eq.X)]])
         IN IF g.status = "running" THEN FixedPointSolver_passes(g, w)
            ELSE {[exc |-> g.exc, val |-> w]} :
           w \in MembersForward(f.solver.members, 1, v)}

FixedPointSolver_forward_solve(s, v) ==
  FixedPointSolver_passes(
    [NoFP EXCEPT !.status = "running", !.mode = "forward", !.solver = s,
                 !.x_0 = function_new(s.eq.X[Len(s.eq.X)]),
                 !.tolerance_sq = FMul(s.params.absolute_tolerance,
                                       s.params.absolute_tolerance)],
    FixedPointSolver_seed(s, v))

MethodNotOverridden == "EquationException: Method not overridden"

\* self.forward_solve(X) of line 176: the ways it can end
ForwardOutcomes(e, v) ==
  IF Equation_forward_solve_raises(e) THEN {[exc |-> MethodNotOverridden, val |-> v]}
  ELSE IF e.kind = "FixedPointSolver" THEN FixedPointSolver_forward_solve(e, v)
  ELSE {[exc |-> "", val |-> w] : w \in Equation_forward_solve(e, v)}

\* a solve whose exception is swallowed and that goes on to line 177
AfterForwardSolveAbsorbed(s, o) ==
  [s EXCEPT !.pc = "start", !.log = Append(s.log, Event("forward_solve", NoneId, 0))]

\* lines 176-177: an exception of forward_solve leaves solve() at once
AfterForwardSolve(s, o) ==
  IF o.exc # "" THEN [s EXCEPT !.pc = "raised", !.exc = o.exc]
  ELSE [s EXCEPT !.pc = "start", !.log = Append(s.log, Event("forward_solve", NoneId, 0))]

\* fixed point iterations that are solved: one that converges in two passes
\* and one whose solution changes sign at every pass
SolveParams ==
  [NoParams EXCEPT !.maximum_iterations = 2, !.nonzero_initial_guess = TRUE]

SolveFixedPoints ==
  {FixedPointSolver_init(<<AssignmentSolver_init("s", "x", <<>>)>>, SolveParams, NoneId),
   FixedPointSolver_init(<<ScaleSolver_init(0 - 1, "x", "y"),
                           AssignmentSolver_init("y", "x", <<>>)>>, SolveParams, NoneId)}

\* the equations that are solved
SolveEqns ==
  {e \in {MkEqn("Equation", Equation_init(<<"x">>, <<"x", "y">>, None))}
           \cup SolveFixedPoints
           \cup {UserEquation_init(X, <<"x", "y", "s">>, nl) :
                   X \in {<<"x">>, <<"y", "x">>, <<"x", "x">>},
                   nl \in {None, Some(<<>>), Some(<<"x">>), Some(<<"y", "s">>)}}
           \cup {NullSolver_init("x"), AssignmentSolver_init("y", "x", <<>>),
                 AssignmentSolver_init("s", "y", <<[g |-> 1]>>),
                 AxpySolver_init("y", 2, "s", "x")} :
     e.exc = ""}

NoSolve ==
  [pc |-> "idle", eqn |-> NoneEqn, pre |-> [v \in Vars |-> 0], log |-> <<>>,
   exc |-> "", annotation |-> TRUE, tlm |-> TRUE, saved |-> <<TRUE, TRUE>>,
   entry |-> <<TRUE, TRUE>>]

SolveInit ==
  /\ val \in [Vars -> Values]
  /\ sv = NoSolve

\* eq.solve(manager) is called
SolveCall ==
  /\ sv.pc = "idle"
  /\ \E e \in SolveEqns, annotation \in BOOLEAN, tlm \in BOOLEAN :
       sv' = [NoSolve EXCEPT !.pc = "_pre_annotate", !.eqn = e, !.pre = val,
                             !.annotation = annotation, !.tlm = tlm,
                             !.entry = <<annotation, tlm>>]
  /\ UNCHANGED val
  /\ UNCHANGED notSolve

\* line 171
SolvePreAnnotate ==
  /\ sv.pc = "_pre_annotate"
  /\ sv' = [sv EXCEPT !.pc = "stop",
                      !.log = sv.log \o Equation_pre_annotate(sv.eqn.eq, val)]
  /\ UNCHANGED val
  /\ UNCHANGED notSolve

\* lines 173-174
SolveManagerStop ==
  /\ sv.pc = "stop"
  /\ sv' = [manager_stop(sv) EXCEPT !.pc = "forward_solve",
                                    !.log = Append(sv.log, Event("stop", NoneId, 0))]
  /\ UNCHANGED val
  /\ UNCHANGED notSolve

\* lines 175-176
SolveForwardSolve ==
  /\ sv.pc = "forward_solve"
  /\ \E o \in ForwardOutcomes(sv.eqn, val) :
       /\ val' = o.val
       /\ sv' = AfterForwardSolve(sv, o)
  /\ UNCHANGED notSolve

\* line 177
SolveManagerStart ==
  /\ sv.pc = "start"
  /\ sv' = [manager_start(sv, sv.saved[1], sv.saved[2]) EXCEPT
              !.pc = "_post_annotate",
              !.log = Append(sv.log, Event("start", NoneId, 0))]
  /\ UNCHANGED val
  /\ UNCHANGED notSolve

\* line 179
SolvePostAnnotate ==
  /\ sv.pc = "_post_annotate"
  /\ sv' = [sv EXCEPT !.pc = "done", !.log = Append(sv.log, manager_add_equation)]
  /\ UNCHANGED val
  /\ UNCHANGED notSolve

SolveNext ==
  \/ SolveCall
  \/ SolvePreAnnotate
  \/ SolveManagerStop
  \/ SolveForwardSolve
  \/ SolveManagerStart
  \/ SolvePostAnnotate

(***************************************************************************)
(* A script of solves against the equation manager.  The manager keeps the *)
(* initial-condition table and the blocks of recorded equations; every     *)
(* eq.solve() of the script is one step: _pre_annotate, forward_solve,     *)
(* _post_annotate.                                                         *)
(***************************************************************************)
MaxEqs == 3

DuplicateSolve == "ManagerException: Duplicate solve"

\* add_initial_condition(x): the first snapshot of an identity is kept, a
\* second one is an error
EquationManager_add_initial_condition(m, v, x) ==
  IF m.exc # "" THEN m
  ELSE IF ~IsNone(m.ics[x]) THEN [m EXCEPT !.exc = DuplicateSolve]
  ELSE [m EXCEPT !.ics[x] = Some(v[x])]

\* add_equation(eq): eq is appended to the current block
EquationManager_add_equation(m, e) ==
  [m EXCEPT !.blocks[Len(m.blocks)] = Append(@, e)]

\* new_block(): closes the current block and opens the next
EquationManager_new_block(m) == [m EXCEPT !.blocks = Append(@, <<>>)]

\* the manager after the calls _pre_annotate makes on it
RECURSIVE ManagerAfterCalls(_, _, _, _)
ManagerAfterCalls(m, calls, v, i) ==
  IF i > Len(calls) THEN m
  ELSE ManagerAfterCalls(EquationManager_add_initial_condition(m, v, calls[i].x),
                         calls, v, i + 1)

\* the recorded equations of all blocks, in order
EquationManager_equations(m) == Flatten(m.blocks)

\* the equations a script solves: built-in solvers, and a user's Equation
\* whose solution is one of its non-linear dependencies
MgrEqns ==
  {e \in {NullSolver_init("x"), NullSolver_init("y"),
           AssignmentSolver_init("s", "x", <<>>),
           AssignmentSolver_init("x", "y", <<>>),
           AxpySolver_init("x", 2, "s", "y"),
           NormSqEquation_init("y", "x"),
           UserEquation_init(<<"x">>, <<"x", "s">>, None)} :
     e.exc = ""}

\* the equations of a differentiated script: built-in solvers only
ADEqns ==
  {e \in {NullSolver_init("x"),
           AssignmentSolver_init("s", "x", <<>>),
           AssignmentSolver_init("x", "y", <<>>),
           AxpySolver_init("x", 2, "s", "y"),
           NormSqEquation_init("y", "x")} :
     e.exc = ""}

NoStep == [eqn |-> NoneEqn, pre |-> [v \in Vars |-> 0], ics |-> [v \in Vars |-> None]]

(***************************************************************************)
(* compute_gradient(J, M) over the recorded equations: the reverse sweep.  *)
(* The objective J is the final value of the Variable j; acc[v] is the     *)
(* running adjoint right-hand side of v, None until it is first touched.   *)
(***************************************************************************)
NoAcc == [v \in Vars |-> None]
AccValue(acc, v) == IF IsNone(acc[v]) THEN 0 ELSE The(acc[v])

\* the last equation before position k that solves for v (0: none)
RECURSIVE LastSolver(_, _, _)
LastSolver(eqs, v, k) ==
  IF k <= 1 THEN 0
  ELSE IF v \in Range(eqs[k - 1].eq.X) THEN k - 1
  ELSE LastSolver(eqs, v, k - 1)

\* the dependencies of an equation that are not its solutions
NonSolutionDeps(e) == {d \in Range(e.eq.deps) : d \notin Range(e.eq.X)}

\* equation k reads a parameter, or the solution of an equation that does
RECURSIVE DependsOnM(_, _, _)
DependsOnM(eqs, M, k) ==
  \E d \in NonSolutionDeps(eqs[k]) :
     \/ d \in Range(M)
     \/ LET l == LastSolver(eqs, d, k) IN l # 0 /\ DependsOnM(eqs, M, l)

\* the adjoint right-hand sides after the derivative actions of e's
\* dependencies i.. (dep_index, from 0) have been subtracted
RECURSIVE SubtractDependencies(_, _, _, _, _)
SubtractDependencies(e, nl_deps, adj_x, acc, i) ==
  IF i >= Len(e.eq.deps) THEN acc
  ELSE LET dep == e.eq.deps[i + 1]
           sb == AdjointDerivativeAction(e, nl_deps, i, adj_x)
       IN SubtractDependencies(e, nl_deps, adj_x,
            IF dep \in Range(e.eq.X) \/ sb.kind = "None" THEN acc
            ELSE [acc EXCEPT ![dep] =
                    Some(subtract_adjoint_derivative_action(AccValue(acc, dep), sb))],
            i + 1)

\* the values of e's non-linear dependencies in the valuation v
NlDepValues(e, v) ==
  LET nl == nonlinear_dependencies(e.eq) IN [i \in 1..Len(nl) |-> v[nl[i]]]

\* equations k, k-1, .., 1 in reverse.  nls[k] holds the values equation k's
\* non-linear dependencies had when it was solved; g.adj_X[k] is what the
\* callback receives for equation k: None when the equation was skipped.
RECURSIVE ReverseSweep(_, _, _, _, _, _)
ReverseSweep(eqs, nls, M, forward_pruning, k, g) ==
  IF k = 0 THEN g
  ELSE
    LET e == eqs[k]
        x == x_of(e)
        b == g.acc[x]
        skip == IsNone(b) \/ (forward_pruning /\ ~DependsOnM(eqs, M, k))
        cleared == [g.acc EXCEPT ![x] = None]
    IN IF skip
         THEN ReverseSweep(eqs, nls, M, forward_pruning, k - 1,
                           [g EXCEPT !.acc = cleared, !.visited = Append(@, k)])
         ELSE LET adj_x == CHOOSE a \in Equation_adjoint_jacobian_solve(e, The(b)) : TRUE
              IN ReverseSweep(eqs, nls, M, forward_pruning, k - 1,
                   [g EXCEPT !.acc = SubtractDependencies(e, nls[k], adj_x, cleared, 0),
                             !.adj_X[k] = Some(adj_x),
                             !.visited = Append(@, k)])

\* a sweep that starts below the equation recorded last
compute_gradientSkipLast(eqs, nls, j, M, forward_pruning) ==
  ReverseSweep(eqs, nls, M, forward_pruning, Len(eqs) - 1,
               [acc |-> [NoAcc EXCEPT ![j] = Some(1)],
                adj_X |-> [k \in 1..Len(eqs) |-> None], visited |-> <<>>])

\* visited lists the equations in the order the callback is called for them
compute_gradient(eqs, nls, j, M, forward_pruning) ==
  ReverseSweep(eqs, nls, M, forward_pruning, Len(eqs),
               [acc |-> [NoAcc EXCEPT ![j] = Some(1)],
                adj_X |-> [k \in 1..Len(eqs) |-> None], visited |-> <<>>])

(***************************************************************************)
(* Checkpointing.  A schedule that retains everything hands the sweep the  *)
(* values stored when each equation was solved.  A multistage schedule     *)
(* keeps the snapshots of some block starts only and replays the blocks    *)
(* forward from the nearest one: the Variables the replayed equations read *)
(* before solving for them are restored from the snapshot, every other     *)
(* Variable holds whatever it held when compute_gradient was called.       *)
(***************************************************************************)
SnapsInRam == 2

RetainAll == [kind |-> "all", kept |-> {}]
Multistage(kept) == [kind |-> "multistage", kept |-> kept]

Schedules(n_blocks) ==
  {RetainAll} \cup
  {Multistage(kept) : kept \in {K \in SUBSET (1..n_blocks) :
                                  1 \in K /\ Cardinality(K) <= SnapsInRam}}

\* the position in the trace of the first equation of block b
RECURSIVE BlockStart(_, _)
BlockStart(blocks, b) ==
  IF b <= 1 THEN 1 ELSE BlockStart(blocks, b - 1) + Len(blocks[b - 1])

\* v is read by one of the equations lo..hi before any of them solves for it
RECURSIVE ReadFirst(_, _, _, _)
ReadFirst(eqs, v, lo, hi) ==
  IF lo > hi THEN FALSE
  ELSE IF v \in NonSolutionDeps(eqs[lo]) THEN TRUE
  ELSE IF v \in Range(eqs[lo].eq.X) THEN FALSE
  ELSE ReadFirst(eqs, v, lo + 1, hi)

\* forward replay of the equations lo..hi from the valuation w: the
\* valuation after each of them (forward_solve only, nothing is recorded)
RECURSIVE ForwardReplay(_, _, _, _)
ForwardReplay(eqs, w, lo, hi) ==
  IF lo > hi THEN <<>>
  ELSE LET w1 == CHOOSE u \in Equation_forward_solve(eqs[lo], w) : TRUE
       IN <<w1>> \o ForwardReplay(eqs, w1, lo + 1, hi)

\* the valuations after each equation of block b, regenerated from the
\* nearest snapshot kept
Materialize(m, live, kept, b) ==
  LET eqs == EquationManager_equations(m)
      c == CHOOSE k \in kept : k <= b /\ \A l \in kept : l <= b => l <= k
      lo == BlockStart(m.blocks, c)
      first == BlockStart(m.blocks, b)
      hi == BlockStart(m.blocks, b + 1) - 1
      w == [v \in Vars |-> IF ReadFirst(eqs, v, lo, hi) THEN m.starts[c][v] ELSE live[v]]
      all == ForwardReplay(eqs, w, lo, hi)
  IN SubSeq(all, first - lo + 1, Len(all))

\* what the sweep is handed as the non-linear dependency values of every
\* recorded equation
NlDepsUnder(m, live, schedule) ==
  LET eqs == EquationManager_equations(m)
      vals == IF schedule.kind = "all" THEN m.nl
              ELSE Flatten([b \in 1..Len(m.blocks) |-> Materialize(m, live, schedule.kept, b)])
  IN [k \in 1..Len(eqs) |-> NlDepValues(eqs[k], vals[k])]

NoGradient ==
  [called |-> FALSE, j |-> NoneId, M |-> <<>>, forward_pruning |-> FALSE,
   schedule |-> RetainAll, acc |-> NoAcc, adj_X |-> <<>>, visited |-> <<>>]

(***************************************************************************)
(* The tangent-linear model of the parameter "s" in the direction "d_s".   *)
(* As each equation is recorded its tangent-linear equation is derived and *)
(* solved on the companions; when tangent_linear returns None the          *)
(* direction does not reach the solution and its companion is zero.        *)
(***************************************************************************)
TlmNames == {"tlm_x", "tlm_y", "d_s"}
TlmM == <<"s">>
TlmdM == <<"d_s">>
TlmMap == [x |-> "tlm_x", y |-> "tlm_y", s |-> NoneId]
NoTlm == [n \in TlmNames |-> 0]
Directions == {1, 2}

\* the primal values and the companions' values side by side
Joint(v, t) == [n \in Vars \cup TlmNames |-> IF n \in Vars THEN v[n] ELSE t[n]]

\* the companions after the tangent-linear equation of e has been solved
TangentLinearSolve(e, v, t) ==
  LET r == tangent_linear(e, TlmM, TlmdM, TlmMap)
  IN IF r.exc # "" THEN t
     ELSE IF r.eqn.kind = "None" THEN [t EXCEPT ![TlmMap[x_of(e)]] = 0]
     ELSE LET u == CHOOSE u \in Equation_forward_solve(r.eqn, Joint(v, t)) : TRUE
          IN [n \in TlmNames |-> u[n]]

NoManager ==
  [ics |-> [v \in Vars |-> None], blocks |-> <<<<>>>>, starts |-> <<>>, exc |-> "",
   solved |-> <<>>, nl |-> <<>>, last |-> NoStep, grad |-> NoGradient, tlm |-> NoTlm]

MgrInit ==
  /\ val \in {v \in [Vars -> Values] : v["s"] = 1 /\ v["y"] = 0}
  /\ mg = [NoManager EXCEPT !.starts = <<val>>]

\* eq.solve(): lines 171-179 against the manager
MgrSolve ==
  /\ mg.exc = ""
  /\ ~mg.grad.called
  /\ Len(mg.solved) < MaxEqs
  /\ \E e \in MgrEqns :
       LET step == [eqn |-> e, pre |-> val, ics |-> mg.ics]
           m1 == ManagerAfterCalls(mg, Equation_pre_annotate(e.eq, val), val, 1)
       IN IF m1.exc # ""
            THEN /\ mg' = [m1 EXCEPT !.last = step]
                 /\ UNCHANGED val
            ELSE \E w \in Equation_forward_solve(e, val) :
                   /\ val' = w
                   /\ mg' = [EquationManager_add_equation(m1, e) EXCEPT
                               !.solved = Append(@, e), !.nl = Append(@, w),
                               !.last = step]
  /\ UNCHANGED notMgr

\* new_block() between two solves of the script
MgrNewBlock ==
  /\ mg.exc = ""
  /\ ~mg.grad.called
  /\ mg.blocks[Len(mg.blocks)] # <<>>
  /\ Len(mg.solved) < MaxEqs
  /\ mg' = [EquationManager_new_block(mg) EXCEPT !.starts = Append(@, val)]
  /\ UNCHANGED val
  /\ UNCHANGED notMgr

ADInit ==
  /\ val \in {v \in [Vars -> {0, 1}] : v["s"] = 1 /\ v["y"] = 0}
  /\ \E d \in Directions :
       mg = [NoManager EXCEPT !.starts = <<val>>, !.tlm = [NoTlm EXCEPT !["d_s"] = d]]

\* eq.solve() while the tangent-linear model is active
ADSolve ==
  /\ mg.exc = ""
  /\ ~mg.grad.called
  /\ Len(mg.solved) < MaxEqs
  /\ \E e \in ADEqns :
       LET step == [eqn |-> e, pre |-> val, ics |-> mg.ics]
           m1 == ManagerAfterCalls(mg, Equation_pre_annotate(e.eq, val), val, 1)
       IN IF m1.exc # ""
            THEN /\ mg' = [m1 EXCEPT !.last = step]
                 /\ UNCHANGED val
            ELSE \E w \in Equation_forward_solve(e, val) :
                   /\ val' = w
                   /\ mg' = [EquationManager_add_equation(m1, e) EXCEPT
                               !.solved = Append(@, e), !.nl = Append(@, w),
                               !.last = step,
                               !.tlm = TangentLinearSolve(e, w, mg.tlm)]
  /\ UNCHANGED notMgr

\* the objectives and the parameters of a gradient
Objectives == {"x", "y"}
Parameters == {TlmM}

\* test_adjoint_graph_pruning expects an equation the parameter does not
\* reach to be inactive: the sweep prunes from the parameter side too
ForwardPruning == {TRUE}

\* compute_gradient(J, M, callback) after the script has run
MgrComputeGradient ==
  /\ mg.exc = ""
  /\ ~mg.grad.called
  /\ Len(mg.solved) >= 1
  /\ \E schedule \in Schedules(Len(mg.blocks)) :
     LET eqs == EquationManager_equations(mg)
         nls == NlDepsUnder(mg, val, schedule)
     IN \E j \in Objectives, M \in Parameters, forward_pruning \in ForwardPruning :
       LET g == compute_gradient(eqs, nls, j, M, forward_pruning)
       IN mg' = [mg EXCEPT !.grad = [called |-> TRUE, j |-> j, M |-> M,
                                     forward_pruning |-> forward_pruning,
                                     schedule |-> schedule,
                                     acc |-> g.acc, adj_X |-> g.adj_X,
                                     visited |-> g.visited]]
  /\ UNCHANGED val
  /\ UNCHANGED notMgr

MgrNext ==
  \/ MgrSolve
  \/ MgrNewBlock

ADNext ==
  \/ ADSolve
  \/ MgrNewBlock
  \/ MgrComputeGradient

(***************************************************************************)
(* The methods of a NullSolver called one at a time, with any arguments.   *)
(***************************************************************************)
notNull == <<lc, built, tl, sv, fp, mg, caches, cache, repl, tsys>>

NullBuilt == built.variant = "NullSolver" /\ built.obj.exc = ""

NullInit ==
  /\ val \in {v \in [Vars -> Values] : v["s"] = 1}
  /\ lc = NoLC
  /\ lcLast = NoLast
  /\ EqInit

\* lines 283-284
NullForwardSolve ==
  /\ NullBuilt
  /\ val' = NullSolver_forward_solve(built.obj, val, x_of(built.obj))
  /\ lcLast' = [NoLast EXCEPT !.op = "forward_solve", !.pre = val]
  /\ UNCHANGED notNull

\* lines 286-290
NullAdjointDerivativeAction ==
  /\ NullBuilt
  /\ \E dep_index \in 0..2, adj_x \in AdjValues :
       lcLast' = [NoLast EXCEPT !.op = "adjoint_derivative_action",
                                !.dep_index = dep_index, !.adj_pre = adj_x,
                                !.adj_post = adj_x,
                                !.ret = Equation_adjoint_derivative_action(built.obj,
                                                                           dep_index, adj_x)]
  /\ UNCHANGED val
  /\ UNCHANGED notNull

\* lines 292-293
NullAdjointJacobianSolve ==
  /\ NullBuilt
  /\ \E b \in Values :
       \E adj_x \in Equation_adjoint_jacobian_solve(built.obj, b) :
         lcLast' = [NoLast EXCEPT !.op = "adjoint_jacobian_solve",
                                  !.adj_pre = b, !.adj_post = adj_x]
  /\ UNCHANGED val
  /\ UNCHANGED notNull

NullNext ==
  \/ ConstructNullSolver
  \/ NullForwardSolve
  \/ NullAdjointDerivativeAction
  \/ NullAdjointJacobianSolve
  \/ TangentLinear

(***************************************************************************)
(* The linear solvers side by side with the LinearCombinationSolver of the *)
(* same terms: an AssignmentSolver, ScaleSolver or AxpySolver is built     *)
(* together with its combination, then the methods of the solver are       *)
(* called one at a time.  An AssignmentSolver that was solved may be       *)
(* followed by the next solver, as in a loop over a chain of assignments.  *)
(***************************************************************************)
notLin == <<tl, sv, fp, mg, caches, cache, repl, tsys>>

LinInit ==
  /\ val \in {v \in [Vars -> Values] : v["s"] = 1}
  /\ lc = NoLC
  /\ lcLast = NoLast
  /\ EqInit

LinConstructAssignmentSolver ==
  /\ built.variant = "none"
  /\ \E y \in Vars, x \in Vars :
       /\ built' = [Built("AssignmentSolver", <<x>>, AssignmentSolver_init(y, x, <<>>))
                      EXCEPT !.deps = <<x, y>>]
       /\ lc' = LinearCombinationSolver_init(x, <<<<1, y>>>>, <<>>)
  /\ lcLast' = [NoLast EXCEPT !.op = "init", !.chain = lcLast.chain]
  /\ UNCHANGED val
  /\ UNCHANGED notLin

LinConstructScaleSolver ==
  /\ built.variant = "none"
  /\ \E alpha \in Alphas, y \in Vars, x_new \in Vars :
       /\ built' = [Built("ScaleSolver", <<x_new>>, ScaleSolver_init(alpha, y, x_new))
                      EXCEPT !.deps = <<x_new, y>>]
       /\ lc' = LinearCombinationSolver_init(x_new, <<<<alpha, y>>>>, <<>>)
  /\ lcLast' = [NoLast EXCEPT !.op = "init", !.chain = lcLast.chain]
  /\ UNCHANGED val
  /\ UNCHANGED notLin

LinConstructAxpySolver ==
  /\ built.variant = "none"
  /\ \E x_old \in Vars, alpha \in Alphas, y \in Vars, x_new \in Vars :
       /\ built' = [Built("AxpySolver", <<x_new>>,
                          AxpySolver_init(x_old, alpha, y, x_new))
                      EXCEPT !.deps = <<x_new, x_old, y>>]
       /\ lc' = LinearCombinationSolver_init(x_new, <<<<1, x_old>>, <<alpha, y>>>>, <<>>)
  /\ lcLast' = [NoLast EXCEPT !.op = "init", !.chain = lcLast.chain]
  /\ UNCHANGED val
  /\ UNCHANGED notLin

\* dependencies handed to forward_solve in place of the solver's own: the
\* solution, then v for every other dependency.  A stand-in for a dependency
\* is never the solution itself.
LinOverride(v) == [i \in 1..Len(built.obj.eq.deps) |-> IF i = 1 THEN built.obj.eq.deps[1] ELSE v]

\* the assignments solved one after another since the values were last
\* written otherwise: the source, then every solution in the order solved
ChainAfter(chain, e, deps) ==
  IF e.kind # "AssignmentSolver" \/ ~IsNone(deps) THEN <<>>
  ELSE LET x == e.eq.deps[1]
           y == e.eq.deps[2]
       IN IF chain # <<>> /\ chain[Len(chain)] = y /\ x \notin Range(chain)
            THEN Append(chain, x)
          ELSE <<y, x>>

forward_solve(e, v, x, deps) ==
  IF e.kind = "AssignmentSolver" THEN AssignmentSolver_forward_solve(e, v, x, deps)
  ELSE LinearCombinationSolver_forward_solve(e, v, x, deps)

LinForwardSolve ==
  /\ built.obj.exc = ""
  /\ \E deps \in {None} \cup {Some(LinOverride(v)) : v \in Vars \ {x_of(built.obj)}} :
       /\ val' = forward_solve(built.obj, val, x_of(built.obj), deps)
       /\ lcLast' = [NoLast EXCEPT !.op = "forward_solve", !.pre = val,
                                    !.override = ~IsNone(deps), !.deps = deps,
                                    !.chain = ChainAfter(lcLast.chain, built.obj, deps)]
  /\ UNCHANGED <<lc, built>>
  /\ UNCHANGED notLin

\* the calls that change nothing are not made twice in a row
LinAdjointDerivativeAction ==
  /\ built.obj.exc = ""
  /\ lcLast.op \notin {"adjoint_derivative_action", "tangent_linear"}
  /\ \E dep_index \in 0..(MaxTerms + 1), adj_x \in AdjValues :
       lcLast' = [NoLast EXCEPT !.op = "adjoint_derivative_action",
                                !.dep_index = dep_index, !.adj_pre = adj_x,
                                !.adj_post = adj_x,
                                !.ret = Equation_adjoint_derivative_action(built.obj,
                                                                           dep_index, adj_x),
                                !.chain = lcLast.chain]
  /\ UNCHANGED <<val, lc, built>>
  /\ UNCHANGED notLin

LinTangentLinear ==
  /\ built.obj.exc = ""
  /\ lcLast.op \notin {"adjoint_derivative_action", "tangent_linear"}
  /\ \E M \in Params, tlm_map \in TlmMaps :
       LET dM == [i \in 1..Len(M) |-> DirOf[M[i]]]
       IN lcLast' = [NoLast EXCEPT !.op = "tangent_linear", !.M = M, !.dM = dM,
                                    !.tlm_map = tlm_map,
                                    !.tl = tangent_linear(built.obj, M, dM, tlm_map),
                                    !.chain = lcLast.chain]
  /\ UNCHANGED <<val, lc, built>>
  /\ UNCHANGED notLin

\* the loop goes on to its next solver
LinNew ==
  /\ built.obj.kind = "AssignmentSolver"
  /\ lcLast.op = "forward_solve"
  /\ built' = NoBuilt
  /\ lc' = NoLC
  /\ lcLast' = [NoLast EXCEPT !.chain = lcLast.chain]
  /\ UNCHANGED val
  /\ UNCHANGED notLin

LinNext ==
  \/ LinConstructAssignmentSolver
  \/ LinConstructScaleSolver
  \/ LinConstructAxpySolver
  \/ LinForwardSolve
  \/ LinAdjointDerivativeAction
  \/ LinTangentLinear
  \/ LinNew

(***************************************************************************)
(* functions.py: the Caches object of one Function x.  The Function has an *)
(* identity and a mutation counter; the Caches object holds the pair it    *)
(* last saw and the registry of the caches that hold entries depending on  *)
(* x.  A cache entry is known by the counter x had when it was built.      *)
(***************************************************************************)
MaxState == 3

CacheIds == {"assembly_cache", "linear_solver_cache"}

\* the identity of x
FunctionId == "x"

notCaches == <<val, lc, lcLast, built, tl, sv, fp, mg, cache, repl, tsys>>

\* lines 141-144: _state() of a Function whose counter attribute is attr
ConstantInterface_state(attr) == IF IsNone(attr) THEN 0 ELSE The(attr)

\* _state() leaves the attribute set
ConstantInterface_state_attr(attr) == Some(ConstantInterface_state(attr))

\* lines 146-150
ConstantInterface_update_state(attr) ==
  IF IsNone(attr) THEN Some(1) ELSE Some(The(attr) + 1)

NoCaches ==
  [attr |-> None, id |-> "", state |-> <<"", 0>>, registry |-> {},
   entries |-> [c \in CacheIds |-> {}], last |-> "none", exc |-> ""]

\* lines 53-56: Caches(x)
Caches_init(attr) ==
  [NoCaches EXCEPT !.attr = ConstantInterface_state_attr(attr), !.id = FunctionId,
                   !.state = <<FunctionId, ConstantInterface_state(attr)>>,
                   !.last = "init"]

\* lines 68-71
Caches_add(s, c) == IF c \notin s.registry THEN [s EXCEPT !.registry = @ \cup {c}] ELSE s

\* lines 73-74
Caches_remove(s, c) == [s EXCEPT !.registry = @ \ {c}]

\* a cache that drops its entries and stays in the registry
Cache_clearKeepRegistered(s, c, dep_id) == [s EXCEPT !.entries[c] = {}]

\* cache.clear(dep_id): the cache drops its entries that depend on dep_id and
\* takes itself out of the Caches of that Function
Cache_clear(s, c, dep_id) == Caches_remove([s EXCEPT !.entries[c] = {}], c)

\* lines 61-66, over the caches todo that were registered when clear() began
RECURSIVE Caches_clear_from(_, _)
Caches_clear_from(s, todo) ==
  IF todo = {} THEN s
  ELSE LET c == CHOOSE c \in todo : TRUE
           t == Cache_clear(s, c, s.id)
       IN IF c \in t.registry THEN [t EXCEPT !.exc = "AssertionError"]
          ELSE Caches_clear_from(t, todo \ {c})

Caches_clear(s) == Caches_clear_from(s, s.registry)

\* an update that stores the pair and clears nothing
Caches_updateNoClear(s, x_id, x_state) == [s EXCEPT !.state = <<x_id, x_state>>]

\* lines 76-80
Caches_update(s, x_id, x_state) ==
  LET state == <<x_id, x_state>>
  IN IF state # s.state
       THEN LET t == Caches_clear(s)
            IN IF t.exc # "" THEN t ELSE [t EXCEPT !.state = state]
     ELSE s

\* Caches(x), for a Function that has been written to or not
CachesInit ==
  caches \in {Caches_init(attr) : attr \in {None, Some(0), Some(1)}}

\* the Function is written to: its counter advances
CachesUpdateState ==
  /\ caches.exc = ""
  /\ ConstantInterface_state(caches.attr) < MaxState
  /\ caches' = [caches EXCEPT !.attr = ConstantInterface_update_state(@),
                              !.last = "_update_state"]
  /\ UNCHANGED notCaches

\* a cache builds an entry from x as it is now and registers with x's Caches
CachesAdd ==
  /\ caches.exc = ""
  /\ \E c \in CacheIds :
       caches' = [Caches_add([caches EXCEPT
                                !.entries[c] = @ \cup {ConstantInterface_state(caches.attr)}],
                             c)
                    EXCEPT !.last = "add"]
  /\ UNCHANGED notCaches

\* Caches.update(x)
CachesUpdate ==
  /\ caches.exc = ""
  /\ caches' = [Caches_update(caches, FunctionId, ConstantInterface_state(caches.attr))
                  EXCEPT !.attr = ConstantInterface_state_attr(caches.attr),
                         !.last = "update"]
  /\ UNCHANGED notCaches

CachesNext ==
  \/ CachesUpdateState
  \/ CachesAdd
  \/ CachesUpdate

(***************************************************************************)
(* caches.py: Cache and CacheIndex.  A CacheIndex is an object; the model  *)
(* keeps every one ever handed out, with the key and value it was handed   *)
(* out for and the number of clear() calls made before it.  List positions *)
(* are counted from 0 as in the code.                                      *)
(***************************************************************************)
MaxIssued == 3

MaxClears == 2

CacheKeys == {"a", "b"}

CacheValues == {10, 20}

notCache == <<val, lc, lcLast, built, tl, sv, fp, mg, caches, repl, tsys>>

\* lines 228-230
Cache_init ==
  [keys |-> [k \in CacheKeys |-> None], values |-> <<>>, index |-> <<>>,
   issued |-> <<>>, clears |-> 0, last |-> "init",
   ret |-> [index |-> 0, value |-> None, exc |-> ""]]

NoCache == [Cache_init EXCEPT !.last = "none"]

\* the CacheIndex objects the cache holds in _keys
HeldIndices(c) == {The(c.keys[k]) : k \in {k \in CacheKeys : ~IsNone(c.keys[k])}}

\* lines 241-245: the new CacheIndex is object number Len(index) + 1 and
\* holds len(self._cache) - 1
Cache_append(c, key, value) ==
  LET i == Len(c.index) + 1
  IN [c EXCEPT !.values = Append(@, value),
               !.index = Append(@, Some(Len(c.values))),
               !.keys[key] = Some(i),
               !.issued = Append(@, [key |-> key, value |-> value, clears |-> c.clears]),
               !.ret = [index |-> i, value |-> Some(value), exc |-> ""]]

\* lines 218-219 and 235-239
Cache_clear_all(c) ==
  [c EXCEPT !.index = [i \in 1..Len(c.index) |->
                         IF i \in HeldIndices(c) THEN None ELSE c.index[i]],
            !.keys = [k \in CacheKeys |-> None],
            !.values = <<>>,
            !.clears = @ + 1,
            !.ret = [index |-> 0, value |-> None, exc |-> ""]]

\* lines 232-233: cache[index], for the CacheIndex object i
Cache_getitem(c, i) ==
  IF IsNone(c.index[i])
    THEN [c EXCEPT !.ret = [index |-> i, value |-> None, exc |-> "TypeError"]]
  ELSE IF The(c.index[i]) >= Len(c.values)
    THEN [c EXCEPT !.ret = [index |-> i, value |-> None, exc |-> "IndexError"]]
  ELSE [c EXCEPT !.ret = [index |-> i, value |-> Some(c.values[The(c.index[i]) + 1]),
                          exc |-> ""]]

\* lines 293-324: b is what assembling the form yields now
AssemblyCache_assemble(c, key, b) ==
  IF IsNone(c.keys[key]) THEN Cache_append(c, key, b)
  ELSE Cache_getitem(c, The(c.keys[key]))

CacheInit == cache = Cache_init

CacheAppend ==
  /\ Len(cache.index) < MaxIssued
  /\ \E key \in CacheKeys, value \in CacheValues :
       cache' = [Cache_append(cache, key, value) EXCEPT !.last = "append"]
  /\ UNCHANGED notCache

CacheAssemble ==
  /\ Len(cache.index) < MaxIssued
  /\ \E key \in CacheKeys, b \in CacheValues :
       cache' = [AssemblyCache_assemble(cache, key, b) EXCEPT !.last = "assemble"]
  /\ UNCHANGED notCache

CacheGetItem ==
  /\ cache.last # "__getitem__"
  /\ \E i \in 1..Len(cache.index) :
       cache' = [Cache_getitem(cache, i) EXCEPT !.last = "__getitem__"]
  /\ UNCHANGED notCache

CacheClear ==
  /\ cache.clears < MaxClears
  /\ cache' = [Cache_clear_all(cache) EXCEPT !.last = "clear"]
  /\ UNCHANGED notCache

CacheNext ==
  \/ CacheAppend
  \/ CacheAssemble
  \/ CacheGetItem
  \/ CacheClear

(***************************************************************************)
(* functions.py and caches.py: the placeholder of a Function.  Objects are *)
(* numbered as they are created; the number is the object's own count.  A  *)
(* Constant keeps the placeholders made for it in two attributes,          *)
(* _tlm_adjoint__replacement (function_replacement) and                    *)
(* _tlm_adjoint__ReplacementFunction (replaced_function); 0 is "no such    *)
(* attribute".                                                             *)
(***************************************************************************)
MaxObjs == 5

Names == {"u", "f_1"}

notRepl == <<val, lc, lcLast, built, tl, sv, fp, mg, caches, cache, tsys>>

\* a Constant; flags = FALSE is a backend Constant without is_static,
\* is_cached and is_checkpointed
Constant_init(count, name, flags, static, cached, checkpoint) ==
  [kind |-> "Constant", count |-> count, id |-> count, name |-> name,
   flags |-> flags, static |-> static, cache |-> cached, checkpoint |-> checkpoint,
   state |-> None, replacement |-> 0, ReplacementFunction |-> 0, of |-> 0]

\* lines 131-132 and 496-497 of functions.py, 265-266 of caches.py
function_id(o) == IF o.kind = "Constant" THEN o.count ELSE o.id

\* lines 134-139 and 499-500
function_name(o) == o.name

\* lines 141-144 and 502-503
function_state(o) ==
  IF o.kind = "Constant" THEN ConstantInterface_state(o.state) ELSE 0 - 1

\* lines 152-156 and 505-506 of functions.py, 271-272 of caches.py
function_is_static_flag(o) ==
  IF o.kind = "Constant" THEN (IF o.flags THEN o.static ELSE FALSE) ELSE o.static

\* lines 158-162 and 508-509
function_is_cached(o) ==
  IF o.kind = "Constant" THEN (IF o.flags THEN o.cache ELSE FALSE) ELSE o.cache

\* lines 164-168 and 511-512
function_is_checkpointed(o) ==
  IF o.kind = "Constant" THEN (IF o.flags THEN o.checkpoint ELSE TRUE) ELSE o.checkpoint

\* lines 526-545: Replacement(x), created as object number count
Replacement_init(x, count, ref) ==
  [kind |-> "Replacement", count |-> count, id |-> function_id(x),
   name |-> function_name(x), flags |-> TRUE, static |-> function_is_static_flag(x),
   cache |-> function_is_cached(x), checkpoint |-> function_is_checkpointed(x),
   state |-> None, replacement |-> 0, ReplacementFunction |-> 0, of |-> ref]

\* caches.py lines 250-260: ReplacementFunction(x); it has no cached and
\* checkpointed flags, kept here at the values the interface defaults to
ReplacementFunction_init(x, count, ref) ==
  [kind |-> "ReplacementFunction", count |-> count, id |-> function_id(x),
   name |-> function_name(x), flags |-> TRUE, static |-> function_is_static_flag(x),
   cache |-> function_is_cached(x), checkpoint |-> function_is_checkpointed(x),
   state |-> None, replacement |-> 0, ReplacementFunction |-> 0, of |-> ref]

\* a _replacement that makes a new placeholder at every call
ConstantInterface_replacementFresh(objs, i) ==
  LET n == Len(objs) + 1
  IN [objs |-> Append([objs EXCEPT ![i].replacement = n],
                      Replacement_init(objs[i], n, i)),
      ret |-> n]

\* lines 284-289: x._replacement() for the Constant numbered i; the result is
\* the heap afterwards and the number of the object returned
ConstantInterface_replacement(objs, i) ==
  IF objs[i].replacement = 0
    THEN LET n == Len(objs) + 1
         IN [objs |-> Append([objs EXCEPT ![i].replacement = n],
                             Replacement_init(objs[i], n, i)),
             ret |-> n]
  ELSE [objs |-> objs, ret |-> objs[i].replacement]

\* lines 522-523
ReplacementInterface_replacement(objs, i) == [objs |-> objs, ret |-> i]

\* function_replacement(x): dispatch on the interface of x
function_replacement(objs, i) ==
  IF objs[i].kind = "Constant" THEN ConstantInterface_replacement(objs, i)
  ELSE ReplacementInterface_replacement(objs, i)

\* caches.py lines 274-279
replaced_function(objs, i) ==
  IF objs[i].kind = "ReplacementFunction" THEN [objs |-> objs, ret |-> i]
  ELSE IF objs[i].ReplacementFunction = 0
    THEN LET n == Len(objs) + 1
         IN [objs |-> Append([objs EXCEPT ![i].ReplacementFunction = n],
                             ReplacementFunction_init(objs[i], n, i)),
             ret |-> n]
  ELSE [objs |-> objs, ret |-> objs[i].ReplacementFunction]

NoRepl == [objs |-> <<>>, first |-> <<>>, last |-> [op |-> "none", arg |-> 0, ret |-> 0]]

\* two Constants of a script, one of them possibly a plain backend Constant
ReplInit ==
  \E name \in Names, flags \in BOOLEAN, static \in BOOLEAN, cached \in BOOLEAN,
     checkpoint \in BOOLEAN :
    /\ flags \/ (~static /\ ~cached /\ checkpoint)
    /\ repl = [NoRepl EXCEPT
                 !.objs = <<Constant_init(1, name, flags, static, cached, checkpoint),
                            Constant_init(2, "f_2", TRUE, ~static, TRUE, FALSE)>>,
                 !.first = <<0, 0>>]

\* the first placeholder handed out for object i by a call of op, kept apart
\* for the two functions
NoteFirst(r, op, i, res) ==
  LET grown == IF Len(res.objs) > Len(r.objs) THEN Append(r.first, 0) ELSE r.first
  IN [r EXCEPT !.objs = res.objs,
               !.first = IF grown[i] = 0 /\ r.objs[i].kind = "Constant" /\ op = "function_replacement"
                           THEN [grown EXCEPT ![i] = res.ret] ELSE grown,
               !.last = [op |-> op, arg |-> i, ret |-> res.ret]]

\* the Constant is written to: lines 146-150
ReplUpdateState ==
  /\ \E i \in 1..Len(repl.objs) :
       /\ repl.objs[i].kind = "Constant"
       /\ ConstantInterface_state(repl.objs[i].state) < MaxState
       /\ repl' = [repl EXCEPT !.objs[i].state = ConstantInterface_update_state(@),
                               !.last = [op |-> "_update_state", arg |-> i, ret |-> 0]]
  /\ UNCHANGED notRepl

\* function_replacement(x) for any object of the script
ReplFunctionReplacement ==
  /\ \E i \in 1..Len(repl.objs) :
       /\ repl.objs[i].kind \in {"Constant", "Replacement"}
       /\ (repl.objs[i].kind = "Constant" /\ repl.objs[i].replacement = 0) =>
             Len(repl.objs) < MaxObjs
       /\ repl' = NoteFirst(repl, "function_replacement", i,
                            function_replacement(repl.objs, i))
  /\ UNCHANGED notRepl

\* replaced_function(x) for a Function or a ReplacementFunction
ReplReplacedFunction ==
  /\ \E i \in 1..Len(repl.objs) :
       /\ repl.objs[i].kind \in {"Constant", "ReplacementFunction"}
       /\ (repl.objs[i].kind = "Constant" /\ repl.objs[i].ReplacementFunction = 0) =>
             Len(repl.objs) < MaxObjs
       /\ repl' = NoteFirst(repl, "replaced_function", i,
                            replaced_function(repl.objs, i))
  /\ UNCHANGED notRepl

ReplNext ==
  \/ ReplUpdateState
  \/ ReplFunctionReplacement
  \/ ReplReplacedFunction

(***************************************************************************)
(* timestepping.py: time levels, TimeFunction and TimeSystem.  A Function  *)
(* of a TimeFunction is named by the TimeFunction and its level; the       *)
(* initial and final Functions of a level are shallow copies (copy with    *)
(* deepcopy = False) and share the values of the level's Function, so      *)
(* values are kept per TimeFunction and level index.  Equations are        *)
(* objects numbered as they are created.  The record of what the manager   *)
(* was asked to do is tsys.trace.                                          *)
(***************************************************************************)
MaxAdded == 2

MaxS == 2

MaxCalls == 2

TFns == {"T", "U"}

LevelIndices == 0..2

notTSys == <<val, lc, lcLast, built, tl, sv, fp, mg, caches, cache, repl>>

\* lines 49-52
BaseTimeLevel_init(order, i) == [order |-> order, i |-> i]

\* lines 94-96, 104-106, 114-116
InitialTimeLevel(i) == BaseTimeLevel_init(0 - 1, i)

TimeLevel(i) == BaseTimeLevel_init(0, i)

FinalTimeLevel(i) == BaseTimeLevel_init(1, i)

\* lines 63-72
BaseTimeLevel_lt(a, b) ==
  IF a.order < b.order THEN TRUE
  ELSE IF a.order > b.order THEN FALSE
  ELSE a.i < b.i

\* sorted(levels): the levels of a set in increasing order
RECURSIVE SortedLevels(_)
SortedLevels(S) ==
  IF S = {} THEN <<>>
  ELSE LET least == CHOOSE a \in S : \A b \in S : ~BaseTimeLevel_lt(b, a)
       IN <<least>> \o SortedLevels(S \ {least})

\* sorted(pairs, key = target): pairs <<target, source>> by increasing target
RECURSIVE SortedByTarget(_)
SortedByTarget(S) ==
  IF S = {} THEN <<>>
  ELSE LET least == CHOOSE p \in S : \A q \in S : ~BaseTimeLevel_lt(q[1], p[1])
       IN <<least>> \o SortedByTarget(S \ {least})

\* a TimeLevels that keeps the cycle map in the order it was given
TimeLevels_initUnsorted(levels, cycle_map) ==
  [levels |-> SortedLevels(Range(levels)), cycle_map |-> cycle_map]

\* lines 127-133; cycle_map is the dict given, as its items in insertion order
TimeLevels_init(levels, cycle_map) ==
  [levels |-> SortedLevels(Range(levels)), cycle_map |-> SortedByTarget(Range(cycle_map))]

\* the levels objects of the scripts: (n, n + 1) and (n, n + 1, n + 2), the
\* latter with its cycle map written in either order
ScriptLevels ==
  {TimeLevels_init(<<TimeLevel(0), TimeLevel(1)>>, <<<<TimeLevel(0), TimeLevel(1)>>>>),
   TimeLevels_init(<<TimeLevel(0), TimeLevel(1), TimeLevel(2)>>,
                   <<<<TimeLevel(0), TimeLevel(1)>>, <<TimeLevel(1), TimeLevel(2)>>>>),
   TimeLevels_init(<<TimeLevel(2), TimeLevel(1), TimeLevel(0)>>,
                   <<<<TimeLevel(1), TimeLevel(2)>>, <<TimeLevel(0), TimeLevel(1)>>>>)}

\* lines 165-169: tfn[key], a Function of the TimeFunction
Fn(tfn, level) == [tfn |-> tfn, level |-> level]

\* an Equation object: X and dependencies() as in Equation.__init__, the
\* solutions first among the dependencies
TSEquation(kind, X, others) ==
  [n |-> 0, kind |-> kind, X |-> X, deps |-> X \o others]

\* the equations a script may add: initial, timestep and final ones, a base
\* Equation whose forward_solve is not overridden, and one with two
\* solutions
TSEqns ==
  {TSEquation("UserEquation", <<Fn("T", InitialTimeLevel(0))>>, <<>>),
   TSEquation("AssignmentSolver", <<Fn("U", InitialTimeLevel(0))>>,
              <<Fn("T", InitialTimeLevel(0))>>),
   TSEquation("Equation", <<Fn("U", InitialTimeLevel(0))>>, <<>>),
   TSEquation("UserEquation", <<Fn("T", TimeLevel(1))>>, <<Fn("T", TimeLevel(0))>>),
   TSEquation("AssignmentSolver", <<Fn("U", TimeLevel(1))>>, <<Fn("T", TimeLevel(1))>>),
   TSEquation("AssignmentSolver", <<Fn("T", TimeLevel(1))>>, <<Fn("U", TimeLevel(1))>>),
   TSEquation("UserEquation", <<Fn("U", TimeLevel(1))>>, <<Fn("U", TimeLevel(0))>>),
   TSEquation("AssignmentSolver", <<Fn("T", FinalTimeLevel(1))>>, <<Fn("T", TimeLevel(1))>>),
   TSEquation("AssignmentSolver", <<Fn("U", FinalTimeLevel(1))>>,
              <<Fn("T", FinalTimeLevel(1))>>),
   TSEquation("UserEquation", <<Fn("T", TimeLevel(1)), Fn("U", TimeLevel(1))>>, <<>>)}

\* lines 197-203, with the values the Functions start from
TimeSystem_init(levels) ==
  [state |-> "initial", initial_eqs |-> <<>>, timestep_eqs |-> <<>>, final_eqs |-> <<>>,
   sorted_eqs |-> None, tfns |-> None,
   levels |-> levels, cycle_eqs |-> [f \in TFns |-> None],
   vals |-> [f \in TFns |-> [i \in LevelIndices |-> IF f = "T" THEN i ELSE 2 * i]],
   nobj |-> 0, trace |-> <<>>, exc |-> "", calls |-> 0,
   last |-> [op |-> "init", s |-> 0, mark |-> 0, initialise |-> FALSE]]

NoTimeSystem == [TimeSystem_init([levels |-> <<>>, cycle_map |-> <<>>]) EXCEPT !.state = "none"]

\* the call ends with an exception
Raise(t, exc) == [t EXCEPT !.exc = exc]

TEvent(op, eq, replace, raised) ==
  [op |-> op, n |-> eq.n, X |-> eq.X, replace |-> replace, raised |-> raised]

\* the sum of the values of the Functions of a sequence
RECURSIVE SumOf(_, _, _)
SumOf(vals, fns, k) ==
  IF k > Len(fns) THEN 0
  ELSE vals[fns[k].tfn][fns[k].level.i] + SumOf(vals, fns, k + 1)

\* the dependencies of eq that are not its solutions
OtherDeps(eq) == SelectSeq(eq.deps, LAMBDA d : d \notin Range(eq.X))

\* forward_solve of the equations of the scripts: an assignment copies, a
\* user equation yields one more than the sum of what it reads
ForwardValue(eq, vals) ==
  IF eq.kind = "AssignmentSolver" THEN SumOf(vals, OtherDeps(eq), 1)
  ELSE 1 + SumOf(vals, OtherDeps(eq), 1)

\* base_equations.py lines 168-179: eq.solve(manager, replace); the base
\* class's forward_solve raises (lines 181-195)
Equation_solve(t, eq, replace) ==
  IF eq.kind = "Equation"
    THEN [t EXCEPT !.trace = Append(@, TEvent("solve", eq, replace, TRUE)),
                   !.exc = "EquationException"]
  ELSE [t EXCEPT !.trace = Append(@, TEvent("solve", eq, replace, FALSE)),
                 !.vals = [f \in TFns |-> [i \in LevelIndices |->
                             IF \E k \in 1..Len(eq.X) : eq.X[k].tfn = f /\ eq.X[k].level.i = i
                               THEN ForwardValue(eq, t.vals) ELSE t.vals[f][i]]]]

\* for eq in eqs[k..]: eq.solve(manager, replace), up to the first that raises
RECURSIVE SolveFrom(_, _, _, _)
SolveFrom(t, eqs, k, replace) ==
  IF k > Len(eqs) \/ t.exc # "" THEN t
  ELSE SolveFrom(Equation_solve(t, eqs[k], replace), eqs, k + 1, replace)

\* for eq in eqs[k..]: eq.replace(manager)
RECURSIVE ReplaceFrom(_, _, _)
ReplaceFrom(t, eqs, k) ==
  IF k > Len(eqs) THEN t
  ELSE ReplaceFrom([t EXCEPT !.trace = Append(@, TEvent("replace", eqs[k], TRUE, FALSE))],
                   eqs, k + 1)

\* lines 178-180: the AssignmentSolvers of a cycle, new objects
CycleEquations(t, tfn) ==
  [k \in 1..Len(t.levels.cycle_map) |->
     [TSEquation("AssignmentSolver", <<Fn(tfn, t.levels.cycle_map[k][1])>>,
                 <<Fn(tfn, t.levels.cycle_map[k][2])>>) EXCEPT !.n = t.nobj + k]]

\* lines 177-182
TimeFunction_cycle(t, tfn) ==
  LET made == IF IsNone(t.cycle_eqs[tfn])
                THEN [t EXCEPT !.cycle_eqs[tfn] = Some(CycleEquations(t, tfn)),
                               !.nobj = @ + Len(t.levels.cycle_map)]
              ELSE t
  IN SolveFrom(made, The(made.cycle_eqs[tfn]), 1, FALSE)

\* lines 208-231
TimeSystem_add_solve(t, e) ==
  IF t.state # "initial" THEN Raise(t, "TimesteppingException: Invalid state")
  ELSE IF Len(e.X) > 1 THEN Raise(t, "TypeError")
  ELSE LET eq == [e EXCEPT !.n = t.nobj + 1]
           level == eq.X[1].level
       IN IF level.order = 0
            THEN [t EXCEPT !.timestep_eqs = Append(@, eq), !.nobj = @ + 1]
          ELSE IF level.order < 0
            THEN [t EXCEPT !.initial_eqs = Append(@, eq), !.nobj = @ + 1]
          ELSE [t EXCEPT !.final_eqs = Append(@, eq), !.nobj = @ + 1]

\* a test that finds no duplicate
NoDuplicateSolveIn(eqs) == FALSE

\* lines 238-245: two solutions of the equations of one group are the same
DuplicateSolveIn(eqs) ==
  \E j, k \in 1..Len(eqs) : \E a \in 1..Len(eqs[j].X), b \in 1..Len(eqs[k].X) :
    /\ (j # k \/ a # b)
    /\ eqs[j].X[a] = eqs[k].X[b]

\* lines 274-277: eq_xs, from each solution to the last equation that has it
RECURSIVE eq_xs_from(_, _, _)
eq_xs_from(eqs, k, m) ==
  IF k > Len(eqs) THEN m
  ELSE eq_xs_from(eqs, k + 1,
                  [x \in DOMAIN m \cup Range(eqs[k].X) |->
                     IF x \in Range(eqs[k].X) THEN eqs[k] ELSE m[x]])

NoEqXs == [x \in {} |-> 0]

\* lines 248-270.  s holds eq_xs, the list eqs being built, parent_ids and
\* the exception raised, if any.
RECURSIVE add_eq_deps(_, _)
RECURSIVE add_eq_deps_over(_, _, _)
add_eq_deps(eq, s) ==
  IF s.exc # "" THEN s
  ELSE IF ~\E k \in 1..Len(eq.X) : eq.X[k] \in DOMAIN s.eq_xs THEN s
  ELSE LET entered == [s EXCEPT !.parent_ids = @ \cup Range(eq.X)]
           after == add_eq_deps_over(eq, entered, 1)
           x == eq.X[Len(eq.X)]
       IN IF after.exc # "" THEN after
          ELSE IF x \notin DOMAIN after.eq_xs
            THEN [after EXCEPT !.eqs = Append(@, eq), !.exc = "KeyError"]
          ELSE [after EXCEPT !.eqs = Append(@, eq),
                             !.eq_xs = [y \in DOMAIN after.eq_xs \ {x} |-> after.eq_xs[y]],
                             !.parent_ids = @ \ Range(eq.X)]

\* lines 261-266: the loop over eq.dependencies() from the k-th on
add_eq_deps_over(eq, s, k) ==
  IF k > Len(eq.deps) \/ s.exc # "" THEN s
  ELSE LET dep == eq.deps[k]
       IN IF dep \notin Range(eq.X)
            THEN IF dep \in s.parent_ids
                   THEN [s EXCEPT !.exc = "TimesteppingException: Circular dependency"]
                 ELSE IF dep \in DOMAIN s.eq_xs
                   THEN add_eq_deps_over(eq, add_eq_deps(s.eq_xs[dep], s), k + 1)
                 ELSE add_eq_deps_over(eq, s, k + 1)
          ELSE add_eq_deps_over(eq, s, k + 1)

\* lines 278-279: for eq in eqs[k..]: add_eq_deps(eq, eq_xs, sorted), each
\* top-level call with a new parent_ids
RECURSIVE SortFrom(_, _, _)
SortFrom(eqs, k, s) ==
  IF k > Len(eqs) \/ s.exc # "" THEN s
  ELSE SortFrom(eqs, k + 1, add_eq_deps(eqs[k], [s EXCEPT !.parent_ids = {}]))

\* a sort that leaves the equations in the order they were added
SortGroupAsAdded(eqs) == [eq_xs |-> NoEqXs, eqs |-> eqs, parent_ids |-> {}, exc |-> ""]

\* lines 273-279 for one group
SortGroup(eqs) ==
  SortFrom(eqs, 1, [eq_xs |-> eq_xs_from(eqs, 1, NoEqXs), eqs |-> <<>>,
                    parent_ids |-> {}, exc |-> ""])

\* lines 281-286
RECURSIVE TfnsOf(_, _, _)
TfnsOf(eqs, k, tfns) ==
  IF k > Len(eqs) THEN tfns
  ELSE LET f == eqs[k].X[1].tfn
       IN TfnsOf(eqs, k + 1, IF f \in Range(tfns) THEN tfns ELSE Append(tfns, f))

\* lines 272-286: the three groups are sorted in turn into self._sorted_eqs,
\* which holds what was appended when an exception ends the sort
TimeSystem_sort(t) ==
  LET s0 == SortGroup(t.initial_eqs)
      s1 == SortGroup(t.timestep_eqs)
      s2 == SortGroup(t.final_eqs)
  IN IF s0.exc # ""
       THEN [t EXCEPT !.sorted_eqs = Some(<<s0.eqs, <<>>, <<>>>>), !.exc = s0.exc]
     ELSE IF s1.exc # ""
       THEN [t EXCEPT !.sorted_eqs = Some(<<s0.eqs, s1.eqs, <<>>>>), !.exc = s1.exc]
     ELSE IF s2.exc # ""
       THEN [t EXCEPT !.sorted_eqs = Some(<<s0.eqs, s1.eqs, s2.eqs>>), !.exc = s2.exc]
     ELSE [t EXCEPT !.sorted_eqs = Some(<<s0.eqs, s1.eqs, s2.eqs>>),
                    !.tfns = Some(TfnsOf(s1.eqs, 1, <<>>))]

\* lines 304-306 and 340-342: _post_annotate of a new AssignmentSolver for
\* each level of each TimeFunction
RECURSIVE PostAnnotateLevels(_, _, _, _)
PostAnnotateLevels(t, tfns, k, final) ==
  IF k > Len(tfns) THEN t
  ELSE PostAnnotateLevels(
         [t EXCEPT !.trace = @ \o
            [j \in 1..Len(t.levels.levels) |->
               TEvent("_post_annotate",
                      TSEquation("AssignmentSolver",
                                 <<Fn(tfns[k], IF final THEN FinalTimeLevel(t.levels.levels[j].i)
                                               ELSE t.levels.levels[j])>>, <<>>),
                      TRUE, FALSE)]],
         tfns, k + 1, final)

\* lines 293-306
TimeSystem_initialise(t) ==
  IF t.state # "assembled" THEN Raise(t, "TimesteppingException: Invalid state")
  ELSE LET begun == [t EXCEPT !.state = "initialised"]
       IN IF IsNone(begun.sorted_eqs) THEN Raise(begun, "TypeError")
          ELSE LET solved == SolveFrom(begun, The(begun.sorted_eqs)[1], 1, TRUE)
                   dropped == [solved EXCEPT !.initial_eqs = <<>>,
                                             !.sorted_eqs = Some([The(@) EXCEPT ![1] = <<>>])]
               IN IF solved.exc # "" THEN solved
                  ELSE IF IsNone(dropped.tfns) THEN Raise(dropped, "TypeError")
                  ELSE PostAnnotateLevels(dropped, The(dropped.tfns), 1, FALSE)

\* lines 233-291
TimeSystem_assemble(t, initialise) ==
  LET begun == [t EXCEPT !.state = "assembled"]
      sorted == IF ~IsNone(begun.sorted_eqs) THEN begun
                ELSE IF \/ DuplicateSolveIn(begun.initial_eqs)
                        \/ DuplicateSolveIn(begun.timestep_eqs)
                        \/ DuplicateSolveIn(begun.final_eqs)
                  THEN Raise(begun, "TimesteppingException: Duplicate solve")
                ELSE TimeSystem_sort(begun)
  IN IF sorted.exc # "" THEN sorted
     ELSE IF initialise THEN TimeSystem_initialise(sorted)
     ELSE sorted

\* lines 320-321: for tfn in tfns[k..]: tfn.cycle(manager)
RECURSIVE CycleFrom(_, _, _)
CycleFrom(t, tfns, k) ==
  IF k > Len(tfns) \/ t.exc # "" THEN t
  ELSE CycleFrom(TimeFunction_cycle(t, tfns[k]), tfns, k + 1)

\* lines 315-321: the steps n..s - 1 of the loop
RECURSIVE StepsFrom(_, _, _)
StepsFrom(t, n, s) ==
  IF n >= s \/ t.exc # "" THEN t
  ELSE IF IsNone(t.sorted_eqs) THEN Raise(t, "TypeError")
  ELSE LET solved == SolveFrom(t, The(t.sorted_eqs)[2], 1, FALSE)
       IN IF solved.exc # "" THEN solved
          ELSE IF IsNone(solved.tfns) THEN Raise(solved, "TypeError")
          ELSE StepsFrom(CycleFrom(solved, The(solved.tfns), 1), n + 1, s)

\* a state test that lets every state through
EnterSteppingAnyState(t) ==
  IF t.state = "initial" THEN TimeSystem_assemble(t, TRUE) ELSE t

\* lines 309-312 and 324-327: the state test timestep and finalise begin with
EnterStepping(t) ==
  IF t.state = "initial" THEN TimeSystem_assemble(t, TRUE)
  ELSE IF t.state \notin {"initialised", "timestepping"}
    THEN Raise(t, "TimesteppingException: Invalid state")
  ELSE t

\* lines 313-321, after the state test: the state is set and the loop runs
StepsEntered(entered, s) ==
  IF entered.exc # "" THEN entered
  ELSE StepsFrom([entered EXCEPT !.state = "timestepping",
                                 !.last.mark = Len(entered.trace)], 0, s)

\* a timestep that makes one step whatever s is
TimeSystem_timestepOnce(t, s) == StepsEntered(EnterStepping(t), 1)

\* lines 308-321; last.mark is where the trace stood when the loop began
TimeSystem_timestep(t, s) == StepsEntered(EnterStepping(t), s)

\* lines 334-338: the cycle equations of tfns[k..] are replaced and forgotten
RECURSIVE ReplaceCyclesFrom(_, _, _)
ReplaceCyclesFrom(t, tfns, k) ==
  IF k > Len(tfns) THEN t
  ELSE IF IsNone(t.cycle_eqs[tfns[k]]) THEN ReplaceCyclesFrom(t, tfns, k + 1)
  ELSE ReplaceCyclesFrom(
         [ReplaceFrom(t, The(t.cycle_eqs[tfns[k]]), 1) EXCEPT !.cycle_eqs[tfns[k]] = None],
         tfns, k + 1)

\* lines 346-349: the sorted final equations are solved and forgotten
FinaliseSolved(solved) ==
  IF solved.exc # "" THEN solved
  ELSE [solved EXCEPT !.final_eqs = <<>>, !.sorted_eqs = None]

\* lines 340-347
FinaliseCycled(cycled) ==
  FinaliseSolved(SolveFrom([PostAnnotateLevels(cycled, The(cycled.tfns), 1, TRUE)
                              EXCEPT !.tfns = None],
                           The(cycled.sorted_eqs)[3], 1, TRUE))

\* lines 332-338
FinaliseReplaced(replaced) ==
  IF IsNone(replaced.sorted_eqs) THEN Raise(replaced, "TypeError")
  ELSE IF IsNone(replaced.tfns)
    THEN Raise([replaced EXCEPT !.sorted_eqs = Some([The(@) EXCEPT ![2] = <<>>])],
               "TypeError")
  ELSE FinaliseCycled(
         ReplaceCyclesFrom([replaced EXCEPT !.sorted_eqs = Some([The(@) EXCEPT ![2] = <<>>])],
                           The(replaced.tfns), 1))

\* lines 328-331, after the state test
FinaliseEntered(entered) ==
  IF entered.exc # "" THEN entered
  ELSE FinaliseReplaced([ReplaceFrom([entered EXCEPT !.state = "final"],
                                     entered.timestep_eqs, 1)
                           EXCEPT !.timestep_eqs = <<>>])

\* lines 323-349
TimeSystem_finalise(t) == FinaliseEntered(EnterStepping(t))

TSysInit == tsys \in {TimeSystem_init(levels) : levels \in ScriptLevels}

\* the start of a call: the last call's exception is forgotten
Called(t, op, s, initialise) ==
  [t EXCEPT !.exc = "",
            !.last = [op |-> op, s |-> s, mark |-> Len(t.trace), initialise |-> initialise]]

\* a call that got past its state test counts against MaxCalls
Counted(t) ==
  IF t.exc = "TimesteppingException: Invalid state" THEN t ELSE [t EXCEPT !.calls = @ + 1]

TSysAddSolve ==
  /\ tsys.nobj < MaxAdded
  /\ tsys.calls = 0
  /\ \E e \in TSEqns :
       tsys' = TimeSystem_add_solve(Called(tsys, "add_solve", 0, FALSE), e)
  /\ UNCHANGED notTSys

\* add_solve after the system has left state 'initial'
TSysAddSolveLate ==
  /\ tsys.state # "initial"
  /\ tsys.last.op # "add_solve"
  /\ \E e \in {e \in TSEqns : e.kind = "Equation"} :
       tsys' = TimeSystem_add_solve(Called(tsys, "add_solve", 0, FALSE), e)
  /\ UNCHANGED notTSys

TSysAssemble ==
  /\ tsys.calls < MaxCalls
  /\ \E initialise \in BOOLEAN :
       tsys' = Counted(TimeSystem_assemble(Called(tsys, "assemble", 0, initialise),
                                           initialise))
  /\ UNCHANGED notTSys

TSysInitialise ==
  /\ tsys.calls < MaxCalls
  /\ ~(tsys.last.op = "initialise" /\ tsys.exc = "TimesteppingException: Invalid state")
  /\ tsys' = Counted(TimeSystem_initialise(Called(tsys, "initialise", 0, FALSE)))
  /\ UNCHANGED notTSys

TSysTimestep ==
  /\ tsys.calls < MaxCalls
  /\ ~(tsys.last.op = "timestep" /\ tsys.exc = "TimesteppingException: Invalid state")
  /\ \E s \in 1..MaxS :
       tsys' = Counted(TimeSystem_timestep(Called(tsys, "timestep", s, FALSE), s))
  /\ UNCHANGED notTSys

TSysFinalise ==
  /\ tsys.calls < MaxCalls
  /\ ~(tsys.last.op = "finalise" /\ tsys.exc = "TimesteppingException: Invalid state")
  /\ tsys' = Counted(TimeSystem_finalise(Called(tsys, "finalise", 0, FALSE)))
  /\ UNCHANGED notTSys

\* tfn.cycle() called by the script itself
TSysCycle ==
  /\ tsys.calls < MaxCalls
  /\ \E tfn \in TFns :
       tsys' = Counted(TimeFunction_cycle(Called(tsys, "cycle", 0, FALSE), tfn))
  /\ UNCHANGED notTSys

TSysNext ==
  \/ TSysAddSolve
  \/ TSysAddSolveLate
  \/ TSysAssemble
  \/ TSysInitialise
  \/ TSysTimestep
  \/ TSysFinalise
  \/ TSysCycle

(***************************************************************************)
(* The specifications.  Each runs one part of the model and leaves the     *)
(* variables of the other parts at rest.                                   *)
(***************************************************************************)
vars == <<val, lc, lcLast, built, tl, sv, fp, mg, caches, cache, repl, tsys>>

LCIdle ==
  /\ val = [v \in Vars |-> 0]
  /\ lc = NoLC
  /\ lcLast = NoLast

EqIdle ==
  /\ built = NoBuilt
  /\ tl = NoTL

SolveIdle == sv = NoSolve

FPIdle == fp = NoFP

MgrIdle == mg = [NoManager EXCEPT !.starts = <<[v \in Vars |-> 0]>>]

CachesIdle == caches = NoCaches

CacheIdle == cache = NoCache

ReplIdle == repl = NoRepl

TSysIdle == tsys = NoTimeSystem

OthersIdle == CacheIdle /\ ReplIdle /\ TSysIdle

InitLC == LCInit /\ EqIdle /\ SolveIdle /\ FPIdle /\ MgrIdle /\ CachesIdle /\ OthersIdle
InitEq == EqInit /\ LCIdle /\ SolveIdle /\ FPIdle /\ MgrIdle /\ CachesIdle /\ OthersIdle
InitSolve == SolveInit /\ lc = NoLC /\ lcLast = NoLast /\ EqIdle /\ FPIdle /\ MgrIdle /\ CachesIdle /\ OthersIdle
InitFP == FPInit /\ lc = NoLC /\ lcLast = NoLast /\ EqIdle /\ SolveIdle /\ MgrIdle /\ CachesIdle /\ OthersIdle
InitMgr == MgrInit /\ lc = NoLC /\ lcLast = NoLast /\ EqIdle /\ SolveIdle /\ FPIdle /\ CachesIdle /\ OthersIdle
InitNull == NullInit /\ SolveIdle /\ FPIdle /\ MgrIdle /\ CachesIdle /\ OthersIdle
InitLin == LinInit /\ SolveIdle /\ FPIdle /\ MgrIdle /\ CachesIdle /\ OthersIdle
InitCaches == CachesInit /\ LCIdle /\ EqIdle /\ SolveIdle /\ FPIdle /\ MgrIdle /\ OthersIdle
Quiet == LCIdle /\ EqIdle /\ SolveIdle /\ FPIdle /\ MgrIdle /\ CachesIdle
InitCache == CacheInit /\ Quiet /\ ReplIdle /\ TSysIdle
InitRepl == ReplInit /\ Quiet /\ CacheIdle /\ TSysIdle
InitTSys == TSysInit /\ Quiet /\ CacheIdle /\ ReplIdle
InitAD == ADInit /\ lc = NoLC /\ lcLast = NoLast /\ EqIdle /\ SolveIdle /\ FPIdle /\ CachesIdle /\ OthersIdle

SpecLC == InitLC /\ [][LCNext]_vars

SpecEq == InitEq /\ [][EqNext]_vars

SpecSolve == InitSolve /\ [][SolveNext]_vars

SpecFP == InitFP /\ [][FPNext]_vars

SpecMgr == InitMgr /\ [][MgrNext]_vars

SpecAD == InitAD /\ [][ADNext]_vars

SpecNull == InitNull /\ [][NullNext]_vars

SpecLin == InitLin /\ [][LinNext]_vars

SpecCaches == InitCaches /\ [][CachesNext]_vars

SpecCache == InitCache /\ [][CacheNext]_vars

SpecRepl == InitRepl /\ [][ReplNext]_vars

SpecTSys == InitTSys /\ [][TSysNext]_vars

(***************************************************************************)
(* Claims about LinearCombinationSolver (checked under SpecLC).            *)
(***************************************************************************)
\* sum_i alpha_i * v[y_i] over the solver's own terms
RECURSIVE WeightedSumFrom(_, _, _)
WeightedSumFrom(s, v, i) ==
  IF i > Len(s.alpha) THEN 0
  ELSE s.alpha[i] * v[s.eq.deps[i + 1]] + WeightedSumFrom(s, v, i + 1)
WeightedSum(s, v) == WeightedSumFrom(s, v, 1)

LCSolved == lcLast.op = "forward_solve" /\ ~lcLast.override

OthersUnchanged == \A v \in Vars \ {lc.eq.X[1]} : val[v] = lcLast.pre[v]

Repeatable == LinearCombinationSolver_forward_solve(lc, val, lc.eq.X[1], None) = val

\* C1 as stated: after forward_solve of any LinearCombinationSolver, x is
\* exactly sum_i alpha_i*y_i for any prior x, the y_i are unchanged and a
\* repeated forward_solve gives the same x.
C1_ExactSumAlways ==
  LCSolved =>
    /\ val[lc.eq.X[1]] = WeightedSum(lc, lcLast.pre)
    /\ OthersUnchanged
    /\ Repeatable

\* C1 amended: x is the weighted sum with the solver's boundary conditions
\* applied on top of it: exactly sum_i alpha_i*y_i when bcs is empty, the
\* constrained value where a boundary condition applies; the y_i are
\* unchanged and a repeated forward_solve gives the same x.
C1_SumThenBcs ==
  LCSolved =>
    /\ Len(lc.bcs) = 0 => val[lc.eq.X[1]] = WeightedSum(lc, lcLast.pre)
    /\ Len(lc.bcs) > 0 => val[lc.eq.X[1]] = lc.bcs[Len(lc.bcs)].g
    /\ OthersUnchanged
    /\ Repeatable

C1_Witness ==
  /\ LCSolved
  /\ lc.alpha = <<2, 1>>
  /\ Len(lc.bcs) = 0
  /\ lcLast.pre[lc.eq.X[1]] = 0 - 1
  /\ val[lc.eq.X[1]] = 3

\* C2: adjoint_derivative_action of an n-term solver returns adj_x for
\* dep_index 0, the pair (-alpha_i, adj_x) for 1 <= i <= n and None for a
\* larger index, and leaves adj_x as it was.
C2_AdjointAction ==
  lcLast.op = "adjoint_derivative_action" =>
    LET n == Len(lc.alpha)
        i == lcLast.dep_index
    IN /\ i = 0 => lcLast.ret = RetFn(lcLast.adj_pre)
       /\ (1 <= i /\ i <= n) => lcLast.ret = RetScaled(0 - lc.alpha[i], lcLast.adj_pre)
       /\ i > n => lcLast.ret.kind = "None"
       /\ lcLast.adj_post = lcLast.adj_pre

C2_Witness ==
  /\ lcLast.op = "adjoint_derivative_action"
  /\ Len(lc.alpha) = 2
  /\ lcLast.dep_index = 2
  /\ lcLast.adj_pre = 1
  /\ lcLast.ret = RetScaled(0 - 2, 1)

(***************************************************************************)
(* Claims about construction and tangent_linear, under SpecEq.             *)
(***************************************************************************)
WellFormed(eq) ==
  /\ Range(eq.X) \subseteq Range(dependencies(eq))
  /\ NoDup(dependencies(eq))
  /\ eq.nl_given => /\ NoDup(eq.nl_deps)
                    /\ Range(eq.nl_deps) \subseteq Range(dependencies(eq))
  /\ ~eq.nl_given => nonlinear_dependencies(eq) = dependencies(eq)

\* the arguments of the last Equation(X, deps, nl_deps) call break a condition
ArgsViolate ==
  /\ built.variant = "Equation"
  /\ \/ ~(Range(built.X) \subseteq Range(built.deps))
     \/ ~NoDup(built.deps)
     \/ /\ ~IsNone(built.nl)
        /\ \/ ~NoDup(The(built.nl))
           \/ ~(Range(The(built.nl)) \subseteq Range(built.deps))

\* C3: every object that a constructor yielded is well formed (solutions among
\* the dependencies, no duplicate dependency, nl_deps without duplicates and
\* inside deps, nonlinear_dependencies() = dependencies() when nl_deps is left
\* out); a constructed Equation holds the arguments it was given, and a call
\* whose arguments break one of the conditions fails.
C3_WellFormed ==
  /\ (built.variant # "none" /\ built.obj.exc = "") => WellFormed(built.obj.eq)
  /\ (built.variant = "Equation" /\ built.obj.exc = "") =>
       /\ built.obj.eq.X = built.X
       /\ dependencies(built.obj.eq) = built.deps
       /\ nonlinear_dependencies(built.obj.eq) =
            (IF IsNone(built.nl) THEN built.deps ELSE The(built.nl))
  /\ ArgsViolate => built.obj.exc # ""

C3_Witness ==
  /\ built.variant = "Equation"
  /\ built.obj.exc = ""
  /\ built.X = <<"x">>
  /\ built.deps = <<"y", "x">>
  /\ built.nl = Some(<<"y">>)
  /\ built.obj.eq.nl_deps_map = <<0>>

\* C4: a constructor of any variant called with a static Function among the
\* solutions raises an EquationException, and no constructed object has a
\* static solution.
C4_StaticSolutionRejected ==
  /\ (built.variant # "none" /\ \E i \in 1..Len(built.X) : function_is_static(built.X[i]))
       => built.obj.exc \in EquationExceptions
  /\ (built.variant # "none" /\ built.obj.exc = "")
       => \A i \in 1..Len(built.obj.eq.X) : ~function_is_static(built.obj.eq.X[i])

C4_Witness ==
  /\ built.variant = "LinearEquation"
  /\ built.X = <<"x", "s">>
  /\ built.obj.exc = "EquationException: Solution cannot be static"

\* tangent_linear was called with one of the equation's own solutions in M
OwnSolutionInM ==
  /\ tl.called
  /\ \E i \in 1..Len(tl.M) : tl.M[i] \in Range(built.obj.eq.X)

\* C6: for every built-in variant, tangent_linear fails whenever one of the
\* equation's own solutions appears in M.
C6_FailsOnOwnSolution == OwnSolutionInM => tl.exc # ""

\* what each member of the built FixedPointSolver returned to the call recorded
\* in tl
MemberTLs ==
  [i \in 1..Len(built.obj.members) |->
     Member_tangent_linear(built.obj.members[i], tl.M, tl.dM, tl.tlm_map)]

FPTangentLinearCalled ==
  /\ built.variant = "FixedPointSolver"
  /\ built.obj.exc = ""
  /\ tl.called

NoMemberRaises == \A i \in 1..Len(MemberTLs) : MemberTLs[i].exc = ""
AllNoEffect == \A i \in 1..Len(MemberTLs) : MemberTLs[i].eqn.kind = "None"
SomeNoEffect == \E i \in 1..Len(MemberTLs) : MemberTLs[i].eqn.kind = "None"

\* C11: FixedPointSolver.tangent_linear returns 'no effect' when every
\* member's tangent_linear is 'no effect', and does not fail because some
\* member's is 'no effect' while another's is not; what it returns otherwise
\* is a FixedPointSolver with the original's solver parameters.
C11_NoEffectMembers ==
  (FPTangentLinearCalled /\ NoMemberRaises) =>
     /\ AllNoEffect => (tl.exc = "" /\ tl.eqn.kind = "None")
     /\ (SomeNoEffect /\ ~AllNoEffect) => tl.exc # "AttributeError"
     /\ tl.exc = "" /\ tl.eqn.kind # "None" =>
          /\ tl.eqn.kind = "FixedPointSolver"
          /\ tl.eqn.params = built.obj.params

\* the part of C11 the code does satisfy: with no 'no effect' member the
\* result, when the call returns, is a FixedPointSolver over the members'
\* tangent-linear equations with the same solver parameters
C11_SameParameters ==
  (FPTangentLinearCalled /\ tl.exc = "") =>
     /\ tl.eqn.kind = "FixedPointSolver"
     /\ tl.eqn.params = built.obj.params
     /\ tl.eqn.members = [i \in 1..Len(MemberTLs) |-> MemberTLs[i].eqn]

C11_MixedReached ==
  FPTangentLinearCalled /\ NoMemberRaises /\ SomeNoEffect /\ ~AllNoEffect

\* the constructor call FixedPointSolver(eqs, params, guess) recorded in built
FPConstructed == built.variant = "FixedPointSolver"
FPEqs == built.args.eqs

SingleSolutions == \A i \in 1..Len(FPEqs) : Len(FPEqs[i].eq.X) = 1
DistinctSolutions ==
  \A i, j \in 1..Len(FPEqs) : i # j => FPEqs[i].eq.X[1] # FPEqs[j].eq.X[1]

MemberDeps == UNION {Range(dependencies(FPEqs[i].eq)) : i \in 1..Len(FPEqs)}
MemberNlDeps == UNION {Range(nonlinear_dependencies(FPEqs[i].eq)) : i \in 1..Len(FPEqs)}

\* the initial guess is a Variable of its own: one was supplied and it is not
\* the final member's solution
ExplicitGuess ==
  /\ built.args.params.nonzero_initial_guess
  /\ built.args.guess # NoneId
  /\ built.args.guess # FPEqs[Len(FPEqs)].eq.X[1]

FPFieldsExceptDeps ==
  /\ Len(FPEqs) >= 1
  /\ SingleSolutions /\ DistinctSolutions
  /\ built.obj.members = FPEqs
  /\ built.obj.eq.X = [i \in 1..Len(FPEqs) |-> FPEqs[i].eq.X[1]]
  /\ NoDup(built.obj.eq.deps) /\ NoDup(built.obj.eq.nl_deps)
  /\ Range(built.obj.eq.nl_deps) = MemberNlDeps

\* C12 as stated: members solve for one Variable each, pairwise distinct,
\* anything else is rejected; X is the members' solutions in member order and
\* deps/nl_deps are the de-duplicated union of the members' dependencies.
C12_StatedDeps ==
  FPConstructed =>
    /\ (~SingleSolutions \/ ~DistinctSolutions) => built.obj.exc # ""
    /\ built.obj.exc = "" =>
         /\ FPFieldsExceptDeps
         /\ Range(built.obj.eq.deps) = MemberDeps

\* C12 as the code has it: an initial guess that is a Variable of its own
\* is the solver's first dependency, ahead of the members' dependencies.
C12_Members ==
  FPConstructed =>
    /\ (~SingleSolutions \/ ~DistinctSolutions) => built.obj.exc # ""
    /\ built.obj.exc = "" =>
         /\ FPFieldsExceptDeps
         /\ Range(built.obj.eq.deps) =
              MemberDeps \cup (IF ExplicitGuess THEN {built.args.guess} ELSE {})
         /\ ExplicitGuess => built.obj.eq.deps[1] = built.args.guess

\* two members were accepted together with an initial guess that none of
\* them depends on
C12_Witness ==
  /\ FPConstructed
  /\ built.obj.exc = ""
  /\ Len(FPEqs) = 2
  /\ ExplicitGuess
  /\ built.args.guess \notin MemberDeps

\* a two-member list solving the same Variable twice was rejected
C12_DuplicateRejected ==
  /\ FPConstructed
  /\ Len(FPEqs) = 2 /\ SingleSolutions /\ ~DistinctSolutions
  /\ built.obj.exc = "EquationException: Duplicate solve"

(***************************************************************************)
(* Claims about a script of solves against the manager, under SpecMgr.     *)
(***************************************************************************)
RecordedEqns == Flatten(mg.blocks)
LastEqn == mg.last.eqn
Attempted == LastEqn.kind # "None"

\* the solutions of the last equation solved whose checkpoint_ic flag is set
FlaggedSolutions ==
  {LastEqn.eq.X[i] : i \in {j \in 1..Len(LastEqn.eq.X) : LastEqn.eq.checkpoint_ic[j]}}

\* a solution of the last equation solved already had a snapshot
ResolvesSnapshotted ==
  /\ Attempted
  /\ \E x \in Range(LastEqn.eq.X) : ~IsNone(mg.last.ics[x])

SnapshotsKept == \A x \in Vars : ~IsNone(mg.last.ics[x]) => mg.ics[x] = mg.last.ics[x]

SameSolutionTwiceInBlock ==
  \E b \in 1..Len(mg.blocks) : \E i, j \in 1..Len(mg.blocks[b]) :
     /\ i < j
     /\ Range(mg.blocks[b][i].eq.X) \cap Range(mg.blocks[b][j].eq.X) # {}

C13_FlaggedTwice ==
  /\ mg.exc = DuplicateSolve
  /\ Len(mg.solved) >= 1

\* the equations a gradient was computed over
Trace == mg.solved

\* the positions after k where equation k's solution is read before it is
\* solved for again
ReadersOf(k) ==
  {l \in (k + 1)..Len(Trace) :
     /\ x_of(Trace[k]) \in NonSolutionDeps(Trace[l])
     /\ \A i \in (k + 1)..(l - 1) : x_of(Trace[i]) # x_of(Trace[k])}

\* equation k gives the objective its value, or is read by one that
\* influences it
RECURSIVE InfluencesJ(_)
InfluencesJ(k) ==
  \/ /\ x_of(Trace[k]) = mg.grad.j
     /\ \A i \in (k + 1)..Len(Trace) : x_of(Trace[i]) # mg.grad.j
  \/ \E l \in ReadersOf(k) : InfluencesJ(l)

\* equation k is reached from a parameter
RECURSIVE ReachedFromM(_)
ReachedFromM(k) ==
  \E d \in NonSolutionDeps(Trace[k]) :
     \/ d \in Range(mg.grad.M)
     \/ \E i \in 1..(k - 1) : k \in ReadersOf(i) /\ x_of(Trace[i]) = d /\ ReachedFromM(i)

\* equation k's solution is solved for again before anything reads it
Overwritten(k) ==
  /\ ReadersOf(k) = {}
  /\ \E l \in (k + 1)..Len(Trace) : x_of(Trace[l]) = x_of(Trace[k])

\* C14: in compute_gradient an equation whose solution never influences
\* the objective is skipped (the callback receives adj_X = None), every
\* equation on a path from a parameter to the objective is processed with
\* an adjoint that is not None, and an equation whose solution is
\* overwritten before it is read is skipped.
C14_GraphPruning ==
  mg.grad.called =>
    \A k \in 1..Len(Trace) :
       /\ ~InfluencesJ(k) => IsNone(mg.grad.adj_X[k])
       /\ (InfluencesJ(k) /\ ReachedFromM(k)) => ~IsNone(mg.grad.adj_X[k])
       /\ Overwritten(k) => IsNone(mg.grad.adj_X[k])

\* an equation was processed while an earlier one for the same Variable,
\* cut off by a re-solve, was skipped
C14_Witness ==
  /\ mg.grad.called
  /\ Len(Trace) = 3
  /\ \E k \in 1..Len(Trace) : Overwritten(k) /\ ReachedFromM(k)
  /\ \E k \in 1..Len(Trace) : InfluencesJ(k) /\ ReachedFromM(k) /\ mg.grad.adj_X[k] = Some(1)

\* the gradient of the same call under the schedule that retains everything
RetainedGradient ==
  compute_gradient(Trace, NlDepsUnder(mg, val, RetainAll), mg.grad.j, mg.grad.M,
                   mg.grad.forward_pruning)

\* a block was replayed from the snapshot of an earlier block
ReplayedAcrossBlocks ==
  /\ mg.grad.schedule.kind = "multistage"
  /\ \E b \in 1..Len(mg.blocks) : b \notin mg.grad.schedule.kept /\ mg.blocks[b] # <<>>

Direction == mg.tlm["d_s"]

\* the derivative of the objective the tangent-linear run ends with
TangentLinearDerivative == mg.tlm[TlmMap[mg.grad.j]]

\* the gradient of the reverse sweep paired with the direction
AdjointDerivative == AccValue(mg.grad.acc, "s") * Direction

\* C16: for every recorded trace, objective and direction, the gradient of
\* the reverse sweep paired with the direction equals the derivative of the
\* objective that solving the derived tangent-linear equations forward in
\* that direction ends with.
C16_Duality == mg.grad.called => AdjointDerivative = TangentLinearDerivative

\* a trace with a linear combination whose gradient is not zero, in a
\* direction other than one
C16_Witness ==
  /\ mg.grad.called
  /\ Direction = 2
  /\ Len(Trace) >= 2
  /\ \E k \in 1..Len(Trace) :
       /\ Trace[k].kind = "LinearCombinationSolver"
       /\ ~IsNone(mg.grad.adj_X[k])
  /\ TangentLinearDerivative # 0
  /\ AdjointDerivative = TangentLinearDerivative

\* the Functions an equation holds: its own, its members', its right-hand
\* sides' and its matrices'
HeldBy(e) ==
  Range(e.eq.X) \cup Range(e.eq.deps) \cup Range(e.eq.nl_deps)
    \cup UNION {Range(e.B[i].deps) \cup Range(e.B[i].nl_deps) : i \in 1..Len(e.B)}
    \cup UNION {Range(The(e.B[i].A).nl_deps) : i \in {j \in 1..Len(e.B) : ~IsNone(e.B[j].A)}}
    \cup (IF IsNone(e.A) THEN {} ELSE Range(The(e.A).nl_deps))
    \cup UNION {Range(e.members[i].eq.X) \cup Range(e.members[i].eq.deps)
                  \cup Range(e.members[i].eq.nl_deps) : i \in 1..Len(e.members)}

PlaceholdersOf(fs) == [i \in 1..Len(fs) |-> PlaceholderOf[fs[i]]]

\* order and length are kept: entry i is the placeholder of what was entry i
SameShape(before, after) ==
  /\ after.X = PlaceholdersOf(before.X)
  /\ after.deps = PlaceholdersOf(before.deps)
  /\ after.nl_deps = PlaceholdersOf(before.nl_deps)
  /\ after.nl_given = before.nl_given
  /\ after.nl_deps_map = before.nl_deps_map
  /\ after.checkpoint_ic = before.checkpoint_ic

\* C18: after replace every Function the equation holds (in X, deps and
\* nl_deps, in every member of a FixedPointSolver and in every right-hand
\* side of a LinearEquation) is a placeholder, never a mixture; order and
\* length, nl_deps_map and checkpoint_ic are what they were.
C18_AllReplaced ==
  built.replaced =>
    /\ HeldBy(built.after) \subseteq Placeholders
    /\ SameShape(built.obj.eq, built.after.eq)
    /\ Len(built.after.members) = Len(built.obj.members)
    /\ \A i \in 1..Len(built.obj.members) :
         SameShape(built.obj.members[i].eq, built.after.members[i].eq)
    /\ Len(built.after.B) = Len(built.obj.B)
    /\ \A i \in 1..Len(built.obj.B) :
         /\ built.after.B[i].deps = PlaceholdersOf(built.obj.B[i].deps)
         /\ built.after.B[i].nl_deps = PlaceholdersOf(built.obj.B[i].nl_deps)

\* the Functions held by the matrices inside the right-hand sides
InnerMatrixHeld(e) ==
  UNION {Range(The(e.B[i].A).nl_deps) : i \in {j \in 1..Len(e.B) : ~IsNone(e.B[j].A)}}

\* the live Functions a replaced equation still holds are those of the
\* matrix inside a MatrixActionRHS
C18_OnlyInnerMatrixKept ==
  built.replaced => (HeldBy(built.after) \ Placeholders) \subseteq InnerMatrixHeld(built.after)

\* a replaced LinearEquation whose right-hand side's matrix still holds y
C18_MixtureReached ==
  /\ built.replaced
  /\ "replaced_y" \in Range(built.after.eq.deps)
  /\ "y" \in InnerMatrixHeld(built.after)

\* a FixedPointSolver of two members with an initial guess was replaced
C18_Witness ==
  /\ built.replaced
  /\ built.variant = "FixedPointSolver"
  /\ Len(built.obj.members) = 2
  /\ ~IsNone(built.obj.initial_guess_index)
  /\ HeldBy(built.obj) \cap Placeholders = {}
  /\ HeldBy(built.after) \subseteq Placeholders

\* a LinearEquation with two right-hand sides was replaced
C18_LinearEquationReplaced ==
  /\ built.replaced
  /\ built.variant = "LinearEquation"
  /\ Len(built.obj.B) = 2
  /\ HeldBy(built.after) \subseteq Placeholders

(***************************************************************************)
(* Claims about Equation.solve, under SpecSolve.                           *)
(***************************************************************************)
Positions(op) == {i \in 1..Len(sv.log) : sv.log[i].op = op}

\* how many of the solutions equal to x carry the checkpoint_ic flag
Flagged(x) ==
  Cardinality({i \in 1..Len(sv.eqn.eq.X) :
                 sv.eqn.eq.X[i] = x /\ sv.eqn.eq.checkpoint_ic[i]})

Recorded(x) ==
  Cardinality({i \in Positions("add_initial_condition") : sv.log[i].x = x})

\* C5: in Equation.solve every add_initial_condition call comes before
\* forward_solve and sees the pre-solve value, one call is made for each flagged
\* solution and none for the others, forward_solve is the only step that writes
\* the Functions, add_equation is called after forward_solve has completed, and
\* a call that returns has called it exactly once, as its last step.
C5_SolveOrder ==
  /\ \A i \in Positions("add_initial_condition") :
       /\ \A j \in Positions("forward_solve") : i < j
       /\ sv.log[i].value = sv.pre[sv.log[i].x]
  /\ sv.pc \notin {"idle", "_pre_annotate"} =>
       \A x \in Vars : Recorded(x) = Flagged(x)
  /\ sv.pc \in {"_pre_annotate", "stop", "forward_solve"} => val = sv.pre
  /\ Cardinality(Positions("forward_solve")) <= 1
  /\ Cardinality(Positions("add_equation")) <= 1
  /\ \A i \in Positions("add_equation") :
       /\ i = Len(sv.log)
       /\ \E j \in Positions("forward_solve") : j < i
  /\ sv.pc = "done" <=> Positions("add_equation") # {}

C5_Witness ==
  /\ sv.pc = "done"
  /\ sv.eqn.eq.X = <<"y", "x">>
  /\ sv.eqn.eq.checkpoint_ic = <<FALSE, TRUE>>
  /\ sv.pre["x"] = 1
  /\ val["x"] = 0
  /\ sv.log = <<Event("add_initial_condition", "x", 1), Event("stop", NoneId, 0),
                Event("forward_solve", NoneId, 0), Event("start", NoneId, 0),
                Event("add_equation", NoneId, 0)>>

\* solve() is past line 176 and forward_solve could only raise
ForwardSolveFailed ==
  /\ sv.pc \in {"raised", "start", "_post_annotate", "done"}
  /\ (Equation_forward_solve_raises(sv.eqn) \/ sv.eqn.kind = "FixedPointSolver")
  /\ \A o \in ForwardOutcomes(sv.eqn, sv.pre) : o.exc # ""

\* C17: when forward_solve raises inside Equation.solve the call ends there
\* with that very exception: manager.start and add_equation are not called
\* for the equation, and nothing of the call is repeated.
C17_FailurePropagates ==
  ForwardSolveFailed =>
    /\ sv.pc = "raised"
    /\ \E o \in ForwardOutcomes(sv.eqn, sv.pre) : o.exc = sv.exc /\ o.val = val
    /\ Positions("add_equation") = {}
    /\ Positions("start") = {}
    /\ Positions("forward_solve") = {}
    /\ Cardinality(Positions("stop")) = 1

\* a fixed point iteration that ran out of passes inside solve()
C17_Witness ==
  /\ sv.pc = "raised"
  /\ sv.eqn.kind = "FixedPointSolver"
  /\ sv.exc = FixedPointDidNotConverge
  /\ val # sv.pre
  /\ Positions("add_equation") = {}

\* the equation being solved, its solutions and their flags
SolvedEq == sv.eqn.eq
SolveStarted == sv.pc \notin {"idle", "_pre_annotate"}

\* solution i is one of the non-linear dependencies the equation was given
GivenNonlinear(i) == SolvedEq.nl_given /\ SolvedEq.X[i] \in Range(SolvedEq.nl_deps)

\* solution i is one of nonlinear_dependencies(), which are the dependencies
\* when none were given
IsNonlinearDependency(i) == SolvedEq.X[i] \in Range(nonlinear_dependencies(SolvedEq))

\* the initial conditions solve() handed to the manager are those of the
\* flagged solutions
RecordsFlagged ==
  \A x \in Vars :
    (Positions("add_initial_condition") # {} /\ Recorded(x) > 0)
      <=> \E i \in 1..Len(SolvedEq.X) : SolvedEq.X[i] = x /\ SolvedEq.checkpoint_ic[i]

\* C19 as stated: the flag of a solution is true unless the solution is one of
\* the non-linear dependencies (the dependencies when none are given), and
\* solve() records an initial condition exactly for the flagged solutions.
C19_FlagUnlessNonlinear ==
  SolveStarted =>
    /\ \A i \in 1..Len(SolvedEq.X) : SolvedEq.checkpoint_ic[i] = ~IsNonlinearDependency(i)
    /\ RecordsFlagged

\* C19: the flag of a solution is true exactly when no non-linear
\* dependencies were given or the solution is one of those given, and solve()
\* records an initial condition exactly for the flagged solutions.
C19_FlagIfNonlinear ==
  SolveStarted =>
    /\ \A i \in 1..Len(SolvedEq.X) :
         SolvedEq.checkpoint_ic[i] = (~SolvedEq.nl_given \/ GivenNonlinear(i))
    /\ RecordsFlagged

\* an equation with one solution among its non-linear dependencies and one
\* outside them was solved: only the first had its value recorded
C19_Witness ==
  /\ sv.pc = "done"
  /\ SolvedEq.nl_given
  /\ \E i, j \in 1..Len(SolvedEq.X) :
       /\ GivenNonlinear(i) /\ Recorded(SolvedEq.X[i]) = 1
       /\ ~GivenNonlinear(j) /\ Recorded(SolvedEq.X[j]) = 0

(***************************************************************************)
(* Claims about NullSolver, under SpecNull.                                *)
(***************************************************************************)
\* C20: NullSolver(x).forward_solve leaves x zero whatever it held and
\* touches nothing else; adjoint_derivative_action returns adj_x for
\* dep_index 0 and None for every other index; adjoint_jacobian_solve
\* returns the right-hand side it was given; tangent_linear returns None for
\* every M, dM and tlm_map.
C20_NullSolver ==
  NullBuilt =>
    /\ lcLast.op = "forward_solve" =>
         /\ val[x_of(built.obj)] = 0
         /\ \A v \in Vars \ {x_of(built.obj)} : val[v] = lcLast.pre[v]
    /\ lcLast.op = "adjoint_derivative_action" =>
         lcLast.ret = IF lcLast.dep_index = 0 THEN RetFn(lcLast.adj_pre) ELSE RetNone
    /\ lcLast.op = "adjoint_jacobian_solve" => lcLast.adj_post = lcLast.adj_pre
    /\ tl.called => (tl.exc = "" /\ tl.eqn.kind = "None")

\* a NullSolver whose solution held a value was solved, after its
\* tangent-linear equation was asked for with its own solution as parameter
C20_Witness ==
  /\ NullBuilt
  /\ lcLast.op = "forward_solve"
  /\ lcLast.pre[x_of(built.obj)] # 0
  /\ val[x_of(built.obj)] = 0
  /\ tl.called
  /\ x_of(built.obj) \in Range(tl.M)
  /\ tl.eqn.kind = "None"

\* the adjoint methods were called: a dependency index past the solution
\* gave None, a right-hand side came back as it was
C20_AdjointReached ==
  /\ NullBuilt
  /\ \/ lcLast.op = "adjoint_derivative_action" /\ lcLast.dep_index = 1
        /\ lcLast.ret = RetNone
     \/ lcLast.op = "adjoint_jacobian_solve" /\ lcLast.adj_pre = 1 /\ lcLast.adj_post = 1

(***************************************************************************)
(* Claims about the fixed point iteration, under SpecFP.                   *)
(***************************************************************************)
FPCalled == fp.status \in {"running", "returned", "raised"}

AbsTolSq == fp.solver.params.absolute_tolerance * fp.solver.params.absolute_tolerance
RelTolSq == fp.solver.params.relative_tolerance * fp.solver.params.relative_tolerance

\* the bound in force at pass k: the absolute one at pass 1, from pass 2 on the
\* larger of it and the relative one resolved against pass 1
BoundAt(k) == IF k = 1 THEN AbsTolSq ELSE PyMax(AbsTolSq, FMul(fp.rs[1], RelTolSq))

ConvergedAt(k) == FLt(fp.rs[k], BoundAt(k)) \/ FEq(fp.rs[k], 0)

\* the test as stated: r_k < max(abs_tol^2, rel_tol^2 * r_1) at every pass
StatedConvergedAt(k) == FLt(fp.rs[k], PyMax(AbsTolSq, FMul(fp.rs[1], RelTolSq)))

\* C7: forward_solve and adjoint_jacobian_solve make at most maximum_iterations
\* passes; a call that returns does so at a pass whose convergence test held,
\* a call that fails raises an EquationException, and the loop goes on only
\* while passes remain.
C7_BoundedPasses ==
  FPCalled =>
    /\ fp.it <= fp.solver.params.maximum_iterations
    /\ Len(fp.rs) = fp.it
    /\ fp.status = "returned" => (fp.it >= 1 /\ ConvergedAt(fp.it))
    /\ fp.status = "raised" =>
         (fp.it >= 1 /\ ~ConvergedAt(fp.it) /\ fp.exc \in EquationExceptions)
    /\ fp.status = "running" => fp.it < fp.solver.params.maximum_iterations

C7_Witness ==
  /\ fp.mode = "adjoint"
  /\ fp.status = "raised"
  /\ fp.exc = FixedPointDidNotConverge
  /\ fp.solver.params.maximum_iterations = MaxIts
  /\ fp.it = MaxIts

\* C8 as stated: forward_solve converges at the first pass k with
\* r_k < max(abs_tol^2, rel_tol^2 * r_1) and at no pass where that is false.
C8_StatedTest ==
  (FPCalled /\ fp.mode = "forward") =>
    \A k \in 1..Len(fp.rs) :
      StatedConvergedAt(k) <=> (k = Len(fp.rs) /\ fp.status = "returned")

\* C8: forward_solve converges at the first pass k with r_k < T_k or r_k = 0,
\* where T_1 = abs_tol^2 and T_k = max(abs_tol^2, rel_tol^2 * r_1) for k >= 2,
\* and at no pass where that is false.
C8_FirstConvergedPass ==
  (FPCalled /\ fp.mode = "forward") =>
    \A k \in 1..Len(fp.rs) :
      ConvergedAt(k) <=> (k = Len(fp.rs) /\ fp.status = "returned")

C8_Witness ==
  /\ fp.mode = "forward"
  /\ fp.status = "returned"
  /\ fp.solver.params.absolute_tolerance = 0
  /\ fp.solver.params.relative_tolerance = 1
  /\ fp.rs = <<4, 9, 1>>

\* C9: a pass of the forward or adjoint iteration whose squared change norm is
\* NaN or infinite is the last pass, and the call fails there.
C9_NonFiniteFails ==
  FPCalled =>
    \A k \in 1..Len(fp.rs) :
      ~IsFinite(fp.rs[k]) => (k = Len(fp.rs) /\ fp.status = "raised")

\* C10 as stated: the final solution is seeded with the explicit guess when
\* nonzero_initial_guess is true and a guess was supplied, in every other case
\* with zero.
C10_StatedSeed ==
  (FPCalled /\ fp.mode = "forward") =>
    fp.seed = (IF fp.solver.params.nonzero_initial_guess /\ fp.guess # NoneId
                 THEN fp.pre[fp.guess] ELSE 0)

\* C10: the final solution is seeded with zero when nonzero_initial_guess is
\* false; when it is true, with the explicit guess if one was supplied and
\* otherwise it keeps the value it has when forward_solve is called.
C10_Seed ==
  (FPCalled /\ fp.mode = "forward") =>
    fp.seed = (IF ~fp.solver.params.nonzero_initial_guess THEN 0
               ELSE IF fp.guess # NoneId THEN fp.pre[fp.guess]
               ELSE fp.pre[fp.solver.eq.X[Len(fp.solver.eq.X)]])

C10_Witness ==
  /\ fp.mode = "forward"
  /\ fp.status = "running"
  /\ fp.it = 0
  /\ fp.solver.params.nonzero_initial_guess
  /\ fp.guess = "s"
  /\ fp.solver.eq.X = <<"y", "x">>
  /\ fp.pre["x"] = 0 - 1
  /\ fp.seed = 1
  /\ val["x"] = 1

(***************************************************************************)
(* Claims about AssignmentSolver, ScaleSolver and AxpySolver next to the   *)
(* LinearCombinationSolver of the same terms, under SpecLin.               *)
(***************************************************************************)
\* the y that the last forward_solve read: the substitute when deps was given
AssignedFrom ==
  IF IsNone(lcLast.deps) THEN dependencies(built.obj.eq)[2] ELSE The(lcLast.deps)[2]

AsCombination(r) ==
  IF r.eqn.kind = "AssignmentSolver"
    THEN Returned(LinearCombinationSolver_init(r.eqn.eq.deps[1],
                                               <<<<1, r.eqn.eq.deps[2]>>>>, r.eqn.bcs))
  ELSE r

LinearVariants == {"AssignmentSolver", "LinearCombinationSolver", "ScaleSolver", "AxpySolver"}

NonLinearDependency == "EquationException: Non-linear dependency in linear equation"

\* C22: a constructor of an AssignmentSolver, LinearCombinationSolver,
\* ScaleSolver or AxpySolver that is given the solution x among the y raises
\* the EquationException for a non-linear dependency, and no constructed
\* linear solver has its solution among its other dependencies.
C22_NoSelfDependence ==
  /\ (built.variant \in LinearVariants /\ built.X[1] \in Range(Tail(built.deps)))
       => built.obj.exc = NonLinearDependency
  /\ (built.variant \in LinearVariants /\ built.obj.exc = "")
       => x_of(built.obj) \notin Range(Tail(dependencies(built.obj.eq)))

C22_Witness ==
  /\ built.variant = "AxpySolver"
  /\ built.deps = <<"x", "y", "x">>
  /\ built.obj.exc = NonLinearDependency

\* tangent_linear was called on a linear combination with no solution in M
\* and a companion for the solution
LCTangentLinearCalled ==
  /\ tl.called
  /\ built.obj.kind = "LinearCombinationSolver"
  /\ x_of(built.obj) \notin Range(tl.M)
  /\ tl.tlm_map[x_of(built.obj)] # NoneId

\* the tangent companion of the i-th term's y: its direction when y is a
\* parameter, otherwise its entry in tlm_map (which may be None)
Companion(i) ==
  LET y == dependencies(built.obj.eq)[i + 1]
  IN IF \E k \in 1..Len(tl.M) : tl.M[k] = y
       THEN tl.dM[CHOOSE k \in 1..Len(tl.M) : tl.M[k] = y]
     ELSE tl.tlm_map[y]

\* the terms that have a companion, in increasing order
WithCompanion ==
  LET S == {i \in 1..Len(built.obj.alpha) : Companion(i) # NoneId}
  IN CHOOSE f \in [1..Cardinality(S) -> S] : \A i, j \in 1..Cardinality(S) : i < j => f[i] < f[j]

\* C23: LinearCombinationSolver.tangent_linear with no solution in M returns
\* None exactly when no term has a tangent companion, and otherwise the
\* LinearCombinationSolver for tlm_map[x] whose terms are the pairs
\* (alpha_i, tau_i) of the terms that have a companion, in the original order.
C23_TangentTerms ==
  LCTangentLinearCalled =>
    /\ tl.exc = ""
    /\ (tl.eqn.kind = "None") <=> (Len(WithCompanion) = 0)
    /\ Len(WithCompanion) > 0 =>
         /\ tl.eqn.kind = "LinearCombinationSolver"
         /\ dependencies(tl.eqn.eq) =
              <<tl.tlm_map[x_of(built.obj)]>>
                \o [k \in 1..Len(WithCompanion) |-> Companion(WithCompanion[k])]
         /\ tl.eqn.alpha = [k \in 1..Len(WithCompanion) |-> built.obj.alpha[WithCompanion[k]]]
         /\ tl.eqn.eq.X = <<tl.tlm_map[x_of(built.obj)]>>

C23_Witness ==
  /\ LCTangentLinearCalled
  /\ built.variant = "AxpySolver"
  /\ dependencies(built.obj.eq) = <<"x", "y", "s">>
  /\ built.obj.alpha = <<1, 2>>
  /\ tl.M = <<"s">>
  /\ tl.tlm_map["y"] = NoneId
  /\ tl.eqn.alpha = <<2>>
  /\ dependencies(tl.eqn.eq) = <<"tlm_x", "d_s">>

(***************************************************************************)
(* Claims about the passes of the fixed point iteration, under SpecFP.     *)
(***************************************************************************)
FinalSolution == fp.solver.eq.X[Len(fp.solver.eq.X)]

ForwardPassStep == fp.status = "running" /\ fp.mode = "forward" /\ fp'.it = fp.it + 1

\* the values a pass can leave behind from v: the first member solved on v,
\* the second on what the first has left
SolvedInOrder(eqs, v) ==
  IF Len(eqs) = 1 THEN Equation_forward_solve(eqs[1], v)
  ELSE UNION {Equation_forward_solve(eqs[2], w) : w \in Equation_forward_solve(eqs[1], v)}

\* (a - b) . (a - b)
SquaredChange(a, b) == LET r == FAdd(a, FNeg(b)) IN FMul(r, r)

\* C24: a pass of forward_solve solves the members once each in the declared
\* order, a member reading what the members before it have written in the
\* same pass, and the change norm of the pass is that of the final member's
\* solution between the end of the previous pass (zero before the first) and
\* the end of this pass.
C24_PassInOrder ==
  [][ForwardPassStep =>
       /\ val' \in SolvedInOrder(fp.solver.members, val)
       /\ fp'.rs = Append(fp.rs, SquaredChange(IF fp.it = 0 THEN 0 ELSE val[FinalSolution],
                                               val'[FinalSolution]))]_vars

C24_Witness ==
  /\ fp.mode = "forward"
  /\ fp.solver.members = <<AssignmentSolver_init("y", "x", <<>>), ScaleSolver_init(0 - 1, "x", "y")>>
  /\ fp.seed = 1
  /\ fp.rs = <<1, 4>>
  /\ val["x"] = 0 - 1
  /\ val["y"] = 1

AdjointPassStep == fp.status = "running" /\ fp.mode = "adjoint" /\ fp'.it = fp.it + 1

\* adjoint_jacobian_solve was entered
AdjointBeginStep == fp.status # "running" /\ fp'.status = "running" /\ fp'.mode = "adjoint"

\* what member i's adjoint solve can return when the adjoints are adj
AdjointSolved(i, adj) ==
  {[adj EXCEPT ![i] = a] :
     a \in Equation_adjoint_jacobian_solve(
             fp.solver.members[i],
             SubtractActions(fp.solver, adj, fp.B[i], The(fp.tdeps)[i], 1))}

\* the adjoints a pass can leave behind: one member alone, or of two members
\* the first and then the last
VisitedInReverseCyclicOrder(adj) ==
  IF Len(fp.solver.members) = 1 THEN AdjointSolved(1, adj)
  ELSE UNION {AdjointSolved(2, a) : a \in AdjointSolved(1, adj)}

PassPosition(i, n) == IF i = n THEN n ELSE n - i

\* the other members that have member i's solution among their dependencies
DependentsOf(i) ==
  {k \in 1..Len(fp.solver.members) :
     k # i /\ x_of(fp.solver.members[i]) \in Range(dependencies(fp.solver.members[k].eq))}

\* member k's adjoint_derivative_action for member i's solution, at adjoint a
ActionOn(k, i, a) ==
  LET deps == dependencies(fp.solver.members[k].eq)
      j == CHOOSE j \in 1..Len(deps) : deps[j] = x_of(fp.solver.members[i])
      sb == Equation_adjoint_derivative_action(fp.solver.members[k], j - 1, a)
  IN IF sb.kind = "None" THEN 0 ELSE FMul(sb.scale, sb.fn)

RECURSIVE SumOfActions(_, _, _)
SumOfActions(S, i, adj) ==
  IF S = {} THEN 0
  ELSE LET k == CHOOSE k \in S : TRUE
       IN FAdd(ActionOn(k, i, adj[k]), SumOfActions(S \ {k}, i, adj))

\* C26: in a pass, the right-hand side of member i's adjoint solve is B[i]
\* minus the adjoint_derivative_action of every other member that depends on
\* member i's solution, taken at that member's adjoint as the pass has left
\* it so far; the member's own action is not in it; the dependency map is
\* built by the first call, kept by every pass and later call, and dropped by
\* reset_adjoint_jacobian_solve.
C26_AdjointRhs ==
  [][/\ AdjointPassStep =>
          /\ fp'.tdeps = fp.tdeps
          /\ \A i \in 1..Len(fp.solver.members) :
               LET n == Len(fp.solver.members)
                   current == [k \in 1..n |->
                                 IF PassPosition(k, n) < PassPosition(i, n)
                                   THEN fp'.adj_X[k] ELSE fp.adj_X[k]]
               IN fp'.adj_X[i] \in
                    Equation_adjoint_jacobian_solve(
                      fp.solver.members[i],
                      FAdd(fp.B[i], FNeg(SumOfActions(DependentsOf(i), i, current))))
     /\ AdjointBeginStep =>
          /\ ~IsNone(fp'.tdeps)
          /\ ~IsNone(fp.tdeps) => fp'.tdeps = fp.tdeps
          /\ \A i \in 1..Len(fp.solver.members) :
               {p[2] + 1 : p \in Range(The(fp'.tdeps)[i])} = DependentsOf(i)]_vars

C26_Witness ==
  /\ fp.mode = "adjoint"
  /\ fp.status = "returned"
  /\ fp.solver.members = <<AssignmentSolver_init("y", "x", <<>>), ScaleSolver_init(0 - 1, "x", "y")>>
  /\ fp.B = <<1, 1>>
  /\ fp.rs = <<1, 0>>
  /\ fp.adj_X = <<0, 1>>

(***************************************************************************)
(* Claims about the order of the reverse sweep, under SpecAD.              *)
(***************************************************************************)
\* the block of the equation at position k of the trace and its place there
BlockOf(k) ==
  CHOOSE b \in 1..Len(mg.blocks) :
    BlockStart(mg.blocks, b) <= k /\ k < BlockStart(mg.blocks, b) + Len(mg.blocks[b])

PlaceIn(k) == k - BlockStart(mg.blocks, BlockOf(k))

\* the values of the non-linear dependencies that the sweep was handed
SweptNlDeps == NlDepsUnder(mg, val, mg.grad.schedule)

\* what equation l, processed with an adjoint, subtracts from the
\* right-hand side of equation k's solution
ContributionOf(l, k) ==
  LET deps == dependencies(Trace[l].eq)
      i == CHOOSE i \in 1..Len(deps) : deps[i] = x_of(Trace[k])
      sb == AdjointDerivativeAction(Trace[l], SweptNlDeps[l], i - 1, The(mg.grad.adj_X[l]))
  IN IF sb.kind = "None" THEN 0 ELSE FMul(sb.scale, sb.fn)

RECURSIVE SumOfContributions(_, _)
SumOfContributions(S, k) ==
  IF S = {} THEN 0
  ELSE LET l == CHOOSE l \in S : TRUE
       IN FAdd(ContributionOf(l, k), SumOfContributions(S \ {l}, k))

\* the right-hand side of equation k's adjoint once every later equation that
\* reads its solution has contributed
CompleteRhs(k) ==
  FAdd(IF x_of(Trace[k]) = mg.grad.j /\ \A i \in (k + 1)..Len(Trace) : x_of(Trace[i]) # mg.grad.j
         THEN 1 ELSE 0,
       FNeg(SumOfContributions({l \in ReadersOf(k) : ~IsNone(mg.grad.adj_X[l])}, k)))

\* C27: the reverse sweep of compute_gradient calls back once for every
\* recorded equation, the blocks from the last to the first and the
\* equations of a block from the last recorded to the first; the adjoint of
\* an equation is solved from a right-hand side that holds the contribution
\* of every later equation that reads its solution.
C27_ReverseSweep ==
  mg.grad.called =>
    /\ Len(mg.grad.visited) = Len(Trace)
    /\ \A k \in 1..Len(Trace) :
         Cardinality({p \in 1..Len(mg.grad.visited) : mg.grad.visited[p] = k}) = 1
    /\ \A p, q \in 1..Len(mg.grad.visited) :
         p < q =>
           LET a == mg.grad.visited[p]
               b == mg.grad.visited[q]
           IN \/ BlockOf(a) > BlockOf(b)
              \/ BlockOf(a) = BlockOf(b) /\ PlaceIn(a) > PlaceIn(b)
    /\ \A k \in 1..Len(Trace) :
         ~IsNone(mg.grad.adj_X[k]) =>
           The(mg.grad.adj_X[k]) \in Equation_adjoint_jacobian_solve(Trace[k], CompleteRhs(k))

C27_Witness ==
  /\ mg.grad.called
  /\ mg.grad.visited = <<3, 2, 1>>
  /\ BlockOf(3) = 2
  /\ BlockOf(2) = 1
  /\ ReadersOf(1) = {2}
  /\ ReadersOf(2) = {3}
  /\ \A k \in 1..3 : ~IsNone(mg.grad.adj_X[k])

(***************************************************************************)
(* Claims about the manager's switches during Equation.solve, under        *)
(* SpecSolve.                                                              *)
(***************************************************************************)
\* C28: while forward_solve runs inside solve() annotation and
\* tangent-linear propagation are both off, and when solve() has returned
\* both switches are as they were when it was called.
C28_StoppedWhileSolving ==
  /\ sv.pc = "forward_solve" => (~sv.annotation /\ ~sv.tlm)
  /\ sv.pc \in {"_post_annotate", "done"} => <<sv.annotation, sv.tlm>> = sv.entry

C28_Witness ==
  /\ sv.pc = "done"
  /\ sv.entry = <<TRUE, FALSE>>
  /\ sv.annotation
  /\ ~sv.tlm
  /\ \E i \in 1..Len(sv.log) : sv.log[i].op = "forward_solve"

(***************************************************************************)
(* Claims about a Function's Caches, under SpecCaches.                     *)
(***************************************************************************)
\* the pair (identity, mutation counter) of x as it is now
CurrentPair == <<FunctionId, ConstantInterface_state(caches.attr)>>

SolveEnded == sv.pc \in {"raised", "done"}

\* C39: whichever way Equation.solve ends, the manager's annotation and
\* tangent-linear switches are as they were when it was called.
C39_RestoredOnEveryExit ==
  SolveEnded => <<sv.annotation, sv.tlm>> = sv.entry

(***************************************************************************)
(* Claims about Cache and the CacheIndex objects it hands out, under       *)
(* SpecCache.                                                              *)
(***************************************************************************)
\* every CacheIndex ever handed out reports None
AllIndicesCleared == \A i \in 1..Len(cache.index) : IsNone(cache.index[i])

\* a CacheIndex handed out since the last clear() addresses the value it was
\* handed out for
AddressesItsValue(i) ==
  /\ ~IsNone(cache.index[i])
  /\ The(cache.index[i]) < Len(cache.values)
  /\ cache.values[The(cache.index[i]) + 1] = cache.issued[i].value

\* C40: right after Cache.clear(), whatever appends came before, the cache
\* holds no values and every CacheIndex ever returned by append reports
\* None; between clears the CacheIndex returned by append(key, value)
\* addresses exactly that value.
C40_ClearedIndices ==
  /\ cache.last = "clear" => (cache.values = <<>> /\ AllIndicesCleared)
  /\ \A i \in 1..Len(cache.index) :
       cache.issued[i].clears = cache.clears => AddressesItsValue(i)

(***************************************************************************)
(* Claims about placeholders, under SpecRepl.                              *)
(***************************************************************************)
\* the placeholders of the script
PlaceholderObjs ==
  {i \in 1..Len(repl.objs) : repl.objs[i].kind \in {"Replacement", "ReplacementFunction"}}

\* placeholder p reports what the object it was made for reports
ReportsAsOriginal(p) ==
  LET x == repl.objs[repl.objs[p].of]
      r == repl.objs[p]
  IN /\ function_id(r) = function_id(x)
     /\ function_name(r) = function_name(x)
     /\ function_is_static_flag(r) = function_is_static_flag(x)
     /\ r.kind = "Replacement" =>
          /\ function_is_cached(r) = function_is_cached(x)
          /\ function_is_checkpointed(r) = function_is_checkpointed(x)
          /\ function_state(r) = 0 - 1
          /\ function_replacement(repl.objs, p) = [objs |-> repl.objs, ret |-> p]
     /\ r.kind = "ReplacementFunction" =>
          replaced_function(repl.objs, p) = [objs |-> repl.objs, ret |-> p]

\* C31: at every moment a placeholder reports the identity, the name and the
\* static, cached and checkpointed flags of the Variable it was made for,
\* and state -1, however often the Variable has been written to since; a
\* Variable asked again for its placeholder returns the one it returned
\* first, and the placeholder of a placeholder is that placeholder.
C31_Placeholder ==
  /\ \A p \in PlaceholderObjs : ReportsAsOriginal(p)
  /\ repl.last.op = "function_replacement" =>
       /\ repl.objs[repl.last.arg].kind = "Constant" =>
            /\ repl.last.ret = repl.first[repl.last.arg]
            /\ repl.objs[repl.last.ret].kind = "Replacement"
            /\ repl.objs[repl.last.ret].of = repl.last.arg
       /\ repl.objs[repl.last.arg].kind = "Replacement" => repl.last.ret = repl.last.arg
  /\ \A i \in 1..Len(repl.objs) :
       Cardinality({p \in PlaceholderObjs : repl.objs[p].of = i
                                         /\ repl.objs[p].kind = "Replacement"}) <= 1

\* the Variable was written to twice after its placeholder was made, and asked
\* for its placeholder again
C31_Witness ==
  /\ repl.last = [op |-> "function_replacement", arg |-> 1, ret |-> 3]
  /\ repl.objs[1].state = Some(2)
  /\ repl.objs[1].flags
  /\ repl.objs[1].static
  /\ repl.objs[3].static
  /\ function_state(repl.objs[3]) = 0 - 1
  /\ Len(repl.objs) = 5

(***************************************************************************)
(* Claims about TimeSystem, under SpecTSys.  A step of the specification   *)
(* is one call; tsys'.last.op names it and tsys'.exc is the exception it   *)
(* ended with, if any.                                                     *)
(***************************************************************************)
InvalidState == "TimesteppingException: Invalid state"

\* the call of this step changed nothing of the system, the time functions
\* or the trace
CallChangedNothing == tsys' = [tsys EXCEPT !.exc = tsys'.exc, !.last = tsys'.last]

\* the states a call of op is accepted in
AcceptedIn(op) ==
  IF op = "add_solve" THEN {"initial"}
  ELSE IF op = "initialise" THEN {"assembled"}
  ELSE {"initial", "initialised", "timestepping"}

GuardedCalls == {"add_solve", "initialise", "timestep", "finalise"}

\* C33: add_solve is accepted only in state 'initial', initialise only in
\* state 'assembled', timestep and finalise only in 'initial', 'initialised'
\* or 'timestepping'; in any other state the call raises
\* TimesteppingException('Invalid state') and leaves the state, the equation
\* lists and the trace as they were.
C33_StateGuards ==
  [][tsys'.last.op \in GuardedCalls =>
       /\ tsys'.exc = "" => tsys.state \in AcceptedIn(tsys'.last.op)
       /\ tsys.state \notin AcceptedIn(tsys'.last.op) =>
            (tsys'.exc = InvalidState /\ CallChangedNothing)
       /\ tsys'.exc = InvalidState => tsys.state \notin AcceptedIn(tsys'.last.op)]_vars

\* timestep was refused in state 'assembled' with equations waiting
C33_Witness ==
  /\ tsys.last.op = "timestep"
  /\ tsys.exc = InvalidState
  /\ tsys.state = "assembled"
  /\ Len(tsys.timestep_eqs) = 2
  /\ tsys.trace = <<>>

\* the place of a state on the path initial -> assembled -> initialised ->
\* timestepping -> final
StateRank(state) ==
  IF state = "initial" THEN 0
  ELSE IF state = "assembled" THEN 1
  ELSE IF state = "initialised" THEN 2
  ELSE IF state = "timestepping" THEN 3
  ELSE 4

\* C34: no call moves the TimeSystem state back along initial -> assembled
\* -> initialised -> timestepping -> final, and once the state is 'final' no
\* call changes it or lets timestep, finalise or add_solve succeed again.
C34_StateOnlyAdvances ==
  [][/\ StateRank(tsys'.state) >= StateRank(tsys.state)
     /\ tsys.state = "final" =>
          /\ tsys'.state = "final"
          /\ tsys'.last.op \in {"timestep", "finalise", "add_solve"} => tsys'.exc # ""]_vars

\* two of the equations solve for the same Function
SolvedTwice(eqs) ==
  \E j, k \in 1..Len(eqs) : j # k /\ Range(eqs[j].X) \cap Range(eqs[k].X) # {}

SomeGroupSolvedTwice(t) ==
  SolvedTwice(t.initial_eqs) \/ SolvedTwice(t.timestep_eqs) \/ SolvedTwice(t.final_eqs)

DuplicateSolveRaised == "TimesteppingException: Duplicate solve"

\* the call of this step runs assemble: it is assemble itself, or timestep or
\* finalise called in state 'initial'
RunsAssemble ==
  \/ tsys'.last.op = "assemble"
  \/ (tsys'.last.op \in {"timestep", "finalise"} /\ tsys.state = "initial")

\* C36: assemble raises TimesteppingException('Duplicate solve') exactly when
\* two equations of one group solve for the same Variable, and then nothing
\* has been solved or annotated by the call; equations of different groups
\* never count as duplicates of each other.
C36_DuplicateSolve ==
  [][/\ (RunsAssemble /\ SomeGroupSolvedTwice(tsys)) =>
          /\ tsys'.exc = DuplicateSolveRaised
          /\ tsys'.trace = tsys.trace
          /\ tsys'.vals = tsys.vals
          /\ IsNone(tsys'.sorted_eqs)
     /\ tsys'.exc = DuplicateSolveRaised => (RunsAssemble /\ SomeGroupSolvedTwice(tsys))]_vars

\* two timestep equations for the same Function were refused
C36_Witness ==
  /\ tsys.exc = DuplicateSolveRaised
  /\ tsys.last.op = "assemble"
  /\ Len(tsys.timestep_eqs) = 2
  /\ tsys.timestep_eqs[1].X = tsys.timestep_eqs[2].X
  /\ tsys.timestep_eqs[1].n # tsys.timestep_eqs[2].n
  /\ tsys.trace = <<>>

\* equation j of the group reads a solution of equation k that is not one of
\* its own solutions
ReadsFrom(eqs, j, k) ==
  \E d \in Range(eqs[j].deps) : d \notin Range(eqs[j].X) /\ d \in Range(eqs[k].X)

\* the equations reached from j along ReadsFrom in at most m steps, m >= 1
RECURSIVE ReadWithin(_, _, _)
ReadWithin(eqs, j, m) ==
  LET direct == {k \in 1..Len(eqs) : ReadsFrom(eqs, j, k)}
  IN IF m <= 1 THEN direct
     ELSE direct \cup UNION {ReadWithin(eqs, k, m - 1) : k \in direct}

\* the group has a cycle of two or more equations
CyclicGroup(eqs) ==
  \E j \in 1..Len(eqs) : \E k \in ReadWithin(eqs, j, Len(eqs)) :
    k # j /\ j \in ReadWithin(eqs, k, Len(eqs))

SomeGroupCyclic(t) ==
  CyclicGroup(t.initial_eqs) \/ CyclicGroup(t.timestep_eqs) \/ CyclicGroup(t.final_eqs)

CircularDependency == "TimesteppingException: Circular dependency"

\* C37: assemble raises TimesteppingException('Circular dependency')
\* whenever the equations of one group read each other's solutions in a cycle
\* of two or more equations, and never for a group without such a cycle.
C37_CircularDependency ==
  [][/\ (RunsAssemble /\ ~SomeGroupSolvedTwice(tsys) /\ SomeGroupCyclic(tsys)) =>
          tsys'.exc = CircularDependency
     /\ tsys'.exc = CircularDependency => (RunsAssemble /\ SomeGroupCyclic(tsys))]_vars

\* the dependency sort ran in this call: raised whenever a group is cyclic
CircularOnSort ==
  [][(RunsAssemble /\ IsNone(tsys.sorted_eqs) /\ ~SomeGroupSolvedTwice(tsys)
      /\ SomeGroupCyclic(tsys)) => tsys'.exc = CircularDependency]_vars

CircularOnlyWhenCyclic ==
  [][tsys'.exc = CircularDependency => (RunsAssemble /\ SomeGroupCyclic(tsys))]_vars

\* the sorted list holds each equation of the group exactly once
EachOnce(sorted, eqs) ==
  /\ Len(sorted) = Len(eqs)
  /\ \A j \in 1..Len(eqs) :
       Cardinality({k \in 1..Len(sorted) : sorted[k].n = eqs[j].n}) = 1

\* no equation of the list reads a solution of one that comes after it
AfterWhatItReads(sorted) ==
  \A j, k \in 1..Len(sorted) : (j < k) => ~ReadsFrom(sorted, j, k)

SortedGroup(sorted, eqs) == EachOnce(sorted, eqs) /\ AfterWhatItReads(sorted)

\* the three groups of a system, as a sequence
Groups(t) == <<t.initial_eqs, t.timestep_eqs, t.final_eqs>>

\* C35: when assemble succeeds each of the three sorted lists holds every
\* equation of its group exactly once, each after the equations of the group
\* whose solutions it reads.
C35_SortedLists ==
  [][(tsys'.last.op = "assemble" /\ tsys'.exc = "") =>
       /\ ~IsNone(tsys'.sorted_eqs)
       /\ \A g \in 1..3 : SortedGroup(The(tsys'.sorted_eqs)[g], Groups(tsys')[g])]_vars

\* the same for the calls in which the sort ran
SortedOnSort ==
  [][(tsys'.last.op = "assemble" /\ tsys'.exc = "" /\ IsNone(tsys.sorted_eqs)) =>
       /\ ~IsNone(tsys'.sorted_eqs)
       /\ \A g \in 1..3 : SortedGroup(The(tsys'.sorted_eqs)[g], Groups(tsys')[g])]_vars

\* the event says that the equation was replaced: eq.replace(), or a solve
\* with replace = True that returned
Replaces(ev) == ev.op = "replace" \/ (ev.op = "solve" /\ ev.replace /\ ~ev.raised)

\* C32: whatever calls are made on a TimeSystem and its TimeFunctions, no
\* equation is forward-solved after it has been replaced.
C32_NoSolveAfterReplace ==
  \A j, k \in 1..Len(tsys.trace) :
    (j < k /\ Replaces(tsys.trace[j]) /\ tsys.trace[k].op = "solve") =>
      tsys.trace[k].n # tsys.trace[j].n

\* initial and final equations are solved with replace, timestep and cycle
\* equations without
SolvedWithReplaceByGroup ==
  \A k \in 1..Len(tsys.trace) :
    tsys.trace[k].op = "solve" =>
      (tsys.trace[k].replace <=> tsys.trace[k].X[1].level.order # 0)

\* the claim for the runs in which no solve has raised
NoSolveAfterReplaceUnlessRaised ==
  (\A k \in 1..Len(tsys.trace) : ~tsys.trace[k].raised) => C32_NoSolveAfterReplace

\* the events the stepping loop of the last call added to the trace
LoopEvents(t) == SubSeq(t.trace, t.last.mark + 1, Len(t.trace))

\* the event is the solve, without replace, of the equation eq
IsSolveOf(ev, eq) ==
  ev.op = "solve" /\ ev.n = eq.n /\ ev.X = eq.X /\ ~ev.replace /\ ~ev.raised

\* the event is the cycle assignment of tfn to the level target
IsCycleTo(ev, tfn, target) ==
  ev.op = "solve" /\ ev.X = <<Fn(tfn, target)>> /\ ~ev.replace /\ ~ev.raised

\* the events ev[from + 1 ..] are one step: the timestep equations in the
\* assembled order, then for each time function its cycle by increasing
\* target level
OneStep(ev, from, eqs, tfns, cycle_map) ==
  /\ \A k \in 1..Len(eqs) : IsSolveOf(ev[from + k], eqs[k])
  /\ \A a \in 1..Len(tfns) : \A b \in 1..Len(cycle_map) :
       IsCycleTo(ev[from + Len(eqs) + (a - 1) * Len(cycle_map) + b], tfns[a], cycle_map[b][1])

\* the targets of the cycle map increase
TargetsIncrease(cycle_map) ==
  \A a, b \in 1..Len(cycle_map) :
    (a < b) => BaseTimeLevel_lt(cycle_map[a][1], cycle_map[b][1])

\* after a cycle of tfn each target level holds what its source level held
\* before the cycle, for the sources above their targets
CycleShifts(before, after, tfn, cycle_map) ==
  \A b \in 1..Len(cycle_map) :
    BaseTimeLevel_lt(cycle_map[b][1], cycle_map[b][2]) =>
      after[tfn][cycle_map[b][1].i] = before[tfn][cycle_map[b][2].i]

\* C38: a timestep(s) that returns has made exactly s steps, each solving
\* every timestep equation once in the assembled order and then cycling the
\* time functions; a cycle assigns in increasing order of target level, so
\* every target receives the value its source held before the cycle.
C38_Timestep ==
  [][/\ (tsys'.last.op = "timestep" /\ tsys'.exc = "") =>
          LET eqs == The(tsys'.sorted_eqs)[2]
              tfns == The(tsys'.tfns)
              cycle_map == tsys'.levels.cycle_map
              per == Len(eqs) + Len(tfns) * Len(cycle_map)
              ev == LoopEvents(tsys')
          IN /\ Len(ev) = tsys'.last.s * per
             /\ \A n \in 0..(tsys'.last.s - 1) : OneStep(ev, n * per, eqs, tfns, cycle_map)
             /\ EachOnce(eqs, tsys'.timestep_eqs)
     /\ TargetsIncrease(tsys'.levels.cycle_map)
     /\ (tsys'.last.op = "cycle" /\ tsys'.exc = "") =>
          LET tfn == LoopEvents(tsys')[1].X[1].tfn
          IN /\ Len(LoopEvents(tsys')) = Len(tsys'.levels.cycle_map)
             /\ CycleShifts(tsys.vals, tsys'.vals, tfn, tsys'.levels.cycle_map)
             /\ \A other \in TFns \ {tfn} : tsys'.vals[other] = tsys.vals[other]]_vars

\* two steps of two equations and two time functions of three levels
C38_Witness ==
  /\ tsys.last.op = "timestep"
  /\ tsys.last.s = 2
  /\ tsys.exc = ""
  /\ Len(tsys.timestep_eqs) = 2
  /\ Len(tsys.levels.levels) = 3
  /\ ~IsNone(tsys.tfns)
  /\ Len(The(tsys.tfns)) = 2
  /\ Len(tsys.trace) - tsys.last.mark = 12

====
